---- MODULE Spec2Model ----
(***************************************************************************)
(* A model of the bogo binary codec (github.com/bubunyo/bogo): the wire    *)
(* format, the package-level and configurable encoders and decoders, the  *)
(* element sizer and the selective object decoder.                         *)
(*                                                                         *)
(* Bytes are naturals 0..255.  A 64-bit machine word (int64, uint64, the   *)
(* bits of a float64) is a sequence of 64 bits, least significant first,   *)
(* so that shifts, zig-zag and overflow behave as they do in Go.  A Go     *)
(* byte slice is a record [d, x]: d holds the len(s) visible bytes and x   *)
(* the bytes of the backing array between len(s) and cap(s); slicing past  *)
(* the capacity and indexing past the length panic, as in Go.              *)
(***************************************************************************)
EXTENDS Integers, Sequences, FiniteSets

(***************************************************************************)
(* Wire constants (src/types.go).                                          *)
(***************************************************************************)
Version == 0
TypeNull == 0
TypeBoolTrue == 1
TypeBoolFalse == 2
TypeString == 3
TypeByte == 4
TypeInt == 5
TypeUint == 6
TypeFloat == 7
TypeBlob == 8
TypeTimestamp == 9
TypeUntypedList == 10
TypeTypedList == 11
TypeObject == 12

\* encoding/binary.MaxVarintLen64, the scratch size of encodeUint/encodeInt
MaxVarintLen64 == 10
\* the longest object key encodeFieldEntry accepts
MaxKeyLen == 255

(***************************************************************************)
(* 64-bit words.                                                           *)
(***************************************************************************)
WordBits == 64

RECURSIVE Pow2(_)
Pow2(n) == IF n = 0 THEN 1 ELSE 2 * Pow2(n - 1)

\* uint64(n) for a natural n below 2^31
W64(n) == [i \in 1..WordBits |-> IF i <= 31 THEN (n \div Pow2(i - 1)) % 2 ELSE 0]

Zero64 == W64(0)

WNot(w) == [i \in 1..WordBits |-> 1 - w[i]]
WOr(a, b) == [i \in 1..WordBits |-> IF a[i] = 1 \/ b[i] = 1 THEN 1 ELSE 0]
WXor(a, b) == [i \in 1..WordBits |-> IF a[i] = b[i] THEN 0 ELSE 1]
\* w << s and w >> s on uint64 (logical; a shift of 64 or more gives 0)
WShl(w, s) == [i \in 1..WordBits |-> IF i - s >= 1 THEN w[i - s] ELSE 0]
WShr(w, s) == [i \in 1..WordBits |-> IF i + s <= WordBits THEN w[i + s] ELSE 0]
\* n >> 63 on int64 (arithmetic): every bit is the sign bit
WSar63(w) == [i \in 1..WordBits |-> w[WordBits]]
\* the bits lo..hi (1-based, at most 30 of them) of w as a natural
RECURSIVE WField(_, _, _)
WField(w, lo, hi) == IF hi < lo THEN 0 ELSE w[lo] + 2 * WField(w, lo + 1, hi)
\* w with every bit above the low n bits cleared
WLow(w, n) == [i \in 1..WordBits |-> IF i <= n THEN w[i] ELSE 0]
WNeg(w) == w[WordBits] = 1

\* int64(n) for a small integer n, two's complement
I64(n) == IF n >= 0 THEN W64(n) ELSE WNot(W64(-n - 1))
MaxUint64 == WNot(Zero64)
MinInt64 == [i \in 1..WordBits |-> IF i = WordBits THEN 1 ELSE 0]
MaxInt64 == WNot(MinInt64)

\* int(u) for a decoded uint64 used as a length or an offset.  Exact
\* between -2^30 and 2^30; beyond that it saturates, which keeps every
\* comparison with a buffer length (all far below 2^30) as in Go.
IntOf(w) ==
    IF \A i \in 31..WordBits : w[i] = 0 THEN WField(w, 1, 30)
    ELSE IF \A i \in 31..WordBits : w[i] = 1 THEN -(WField(WNot(w), 1, 30) + 1)
    ELSE IF WNeg(w) THEN -Pow2(30) ELSE Pow2(30)

(***************************************************************************)
(* Go slices.                                                              *)
(***************************************************************************)
Sl(d) == [d |-> d, x |-> <<>>]
SLen(s) == Len(s.d)
SCap(s) == Len(s.d) + Len(s.x)
SAll(s) == s.d \o s.x
\* s[lo:hi] is legal iff 0 <= lo <= hi <= cap(s)
SliceOK(s, lo, hi) == 0 <= lo /\ lo <= hi /\ hi <= SCap(s)
Slice(s, lo, hi) ==
    [d |-> SubSeq(SAll(s), lo + 1, hi), x |-> SubSeq(SAll(s), hi + 1, SCap(s))]
\* s[lo:] is legal iff 0 <= lo <= len(s)
SliceFromOK(s, lo) == 0 <= lo /\ lo <= SLen(s)
SliceFrom(s, lo) == [d |-> SubSeq(s.d, lo + 1, SLen(s)), x |-> s.x]
\* s[:hi]
SliceToOK(s, hi) == SliceOK(s, 0, hi)
SliceTo(s, hi) == Slice(s, 0, hi)

(***************************************************************************)
(* encoding/binary varints, as encodeUint/encodeInt/decodeUint/decodeInt   *)
(* use them.                                                               *)
(***************************************************************************)
RECURSIVE PutUvarint(_)
PutUvarint(x) ==
    IF \E i \in 8..WordBits : x[i] = 1
    THEN <<WField(x, 1, 7) + 128>> \o PutUvarint(WShr(x, 7))
    ELSE <<WField(x, 1, 7)>>

\* ux := uint64(x) << 1; if x < 0 { ux = ^ux }
PutVarint(x) == PutUvarint(IF WNeg(x) THEN WNot(WShl(x, 1)) ELSE WShl(x, 1))

RECURSIVE UvarintLoop(_, _, _, _)
UvarintLoop(buf, i, x, s) ==
    IF i >= Len(buf) THEN [val |-> Zero64, n |-> 0]
    ELSE IF i = MaxVarintLen64 THEN [val |-> Zero64, n |-> -(i + 1)]
    ELSE LET b == buf[i + 1] IN
         IF b < 128
         THEN IF i = MaxVarintLen64 - 1 /\ b > 1
              THEN [val |-> Zero64, n |-> -(i + 1)]
              ELSE [val |-> WOr(x, WShl(W64(b), s)), n |-> i + 1]
         ELSE UvarintLoop(buf, i + 1, WOr(x, WShl(W64(b % 128), s)), s + 7)

Uvarint(buf) == UvarintLoop(buf, 0, Zero64, 0)

\* x := int64(ux >> 1); if ux&1 != 0 { x = ^x }
Varint(buf) ==
    LET r == Uvarint(buf)
        x == WShr(r.val, 1)
    IN  [val |-> IF r.val[1] = 1 THEN WNot(x) ELSE x, n |-> r.n]

(***************************************************************************)
(* Values.  One record shape for every Go value the codec exchanges:       *)
(*   k  the Go dynamic type ("string", "int64", "[]string", ...)           *)
(*   n  a small number: the byte of a uint8, 1/0 of a bool, the TypeID of  *)
(*      an UnknownType                                                     *)
(*   w  the 64-bit word of an integer, a float or a time (Unix ms)         *)
(*   b  the bytes of a string, a blob or an UnknownType                    *)
(*   l  the elements of a slice, or the (key, value) entries of a map or   *)
(*      a struct handed to the encoder, in the order Go iterates them      *)
(*   m  the entries of a decoded map, as a set (a Go map has no order)     *)
(***************************************************************************)
Val(k, n, w, b, l, m) == [k |-> k, n |-> n, w |-> w, b |-> b, l |-> l, m |-> m]
NilV == Val("nil", 0, <<>>, <<>>, <<>>, {})
\* typed nils: a nil pointer, a nil slice, a nil map
NilOf(k) == Val(k, 0, <<>>, <<>>, <<>>, {})
BoolV(t) == Val("bool", IF t THEN 1 ELSE 0, <<>>, <<>>, <<>>, {})
StrV(s) == Val("string", 0, <<>>, s, <<>>, {})
ByteV(x) == Val("uint8", x, <<>>, <<>>, <<>>, {})
NumV(k, w) == Val(k, 0, w, <<>>, <<>>, {})
BlobV(s) == Val("[]uint8", 0, <<>>, s, <<>>, {})
TimeV(w) == Val("time.Time", 0, w, <<>>, <<>>, {})
ListV(k, l) == Val(k, 0, <<>>, <<>>, l, {})
Entry(key, val) == [key |-> key, val |-> val]
ObjV(entries) == Val("map[string]any", 0, <<>>, <<>>, entries, {})
StructV(entries) == Val("struct", 0, <<>>, <<>>, entries, {})
MapV(m) == Val("map[string]any", 0, <<>>, <<>>, <<>>, m)
UnknownV(t, data) == Val("UnknownType", t, <<>>, data, <<>>, {})

NilKinds == {"nil", "nil ptr", "nil slice", "nil map"}
SignedKinds == {"int", "int8", "int16", "int32", "int64"}
UnsignedKinds == {"uint", "uint16", "uint32", "uint64"}
FloatKinds == {"float32", "float64"}
SliceKinds ==
    {"[]string", "[]int", "[]int64", "[]float64", "[]bool", "[]uint64", "[]any"}

\* Results.  An encoder returns bytes or an error; a decoder returns a
\* value, an error, or does not return at all (a run-time panic).
EOk(b) == [st |-> "ok", b |-> b, err |-> ""]
EErr(msg) == [st |-> "err", b |-> <<>>, err |-> msg]
DOk(v) == [st |-> "ok", v |-> v, err |-> ""]
DErr(msg) == [st |-> "err", v |-> NilV, err |-> msg]
DPanic == [st |-> "panic", v |-> NilV, err |-> "runtime error: out of range"]

(***************************************************************************)
(* Scalar encoders.                                                        *)
(***************************************************************************)
encodeNull == <<TypeNull>>
encodeBool(v) == IF v.n = 1 THEN <<TypeBoolTrue>> ELSE <<TypeBoolFalse>>
encodeByte(v) == <<TypeByte, v.n>>

\* result[1] = byte(n): the varint body is never longer than 10 bytes
numBytes(tag, body) == <<tag, Len(body)>> \o body
encodeUint(w) == numBytes(TypeUint, PutUvarint(w))
\* encodeInt calling binary.PutUvarint on the raw bits, as encodeUint does
encodeIntUnfolded(w) == numBytes(TypeInt, PutUvarint(w))
encodeInt(w) == numBytes(TypeInt, PutVarint(w))

\* binary.LittleEndian.PutUint16 / PutUint64
LE16(n) == <<n % 256, n \div 256>>
LE64(w) == [i \in 1..8 |-> WField(w, 8 * (i - 1) + 1, 8 * i)]

\* decomposeFloat64 keeping 51 bits of the mantissa
decomposeFloat64Short(bits) ==
    [signExp |-> bits[WordBits] * 32768 + WField(bits, 53, 63),
     mantissa |-> WLow(bits, 51)]

\* signExp = (sign << 15) | (exponent & 0x7FFF), mantissa = bits & 0xFFFFFFFFFFFFF
decomposeFloat64(bits) ==
    [signExp |-> bits[WordBits] * 32768 + WField(bits, 53, 63),
     mantissa |-> WLow(bits, 52)]

\* buf[1] = byte(n + 4); return buf[:n+4]
floatBytes(signExp, mant) == <<TypeFloat, Len(mant) + 4>> \o LE16(signExp) \o mant
encodeFloat(bits) ==
    floatBytes(decomposeFloat64(bits).signExp, PutUvarint(decomposeFloat64(bits).mantissa))

encodeNum(v) ==
    CASE v.k \in SignedKinds -> EOk(encodeInt(v.w))
      [] v.k \in UnsignedKinds -> EOk(encodeUint(v.w))
      [] v.k = "uint8" -> EOk(encodeUint(W64(v.n)))
      [] v.k \in FloatKinds -> EOk(encodeFloat(v.w))
      [] OTHER -> EErr("unsupported numeric type")

\* src/string.go: the empty string is special-cased to two bytes
encodeString(s) ==
    IF Len(s) = 0 THEN <<TypeString, 0>>
    ELSE <<TypeString>> \o Tail(encodeUint(W64(Len(s)))) \o s

encodeBlob(s) == <<TypeBlob>> \o Tail(encodeUint(W64(Len(s)))) \o s

encodeTimestamp(w) == <<TypeTimestamp>> \o LE64(w)

isNullValue(v) == v.k \in NilKinds

(***************************************************************************)
(* Package-level container encoders (src/object.go, src/typed_list.go,     *)
(* src/unnamed/part_000) and the package-level dispatcher encode           *)
(* (src/bogo.go).                                                          *)
(***************************************************************************)
\* the elements of a slice as reflect's v.Index(i).Interface() yields them
Elems(v) == IF v.k = "[]uint8" THEN [i \in 1..Len(v.b) |-> ByteV(v.b[i])] ELSE v.l

RECURSIVE encode(_), encodeElems(_), encodeFields(_)

\* a kind byte, the length-prefixed byte count of the content, the content
framedBytes(tag, r) ==
    IF r.st # "ok" THEN r
    ELSE EOk(<<tag>> \o Tail(encodeUint(W64(Len(r.b)))) \o r.b)

\* buf.Write(h); then the rest of the loop.  msg replaces the error of h
\* ("" keeps it)
joinedBytes(h, t, msg) ==
    IF h.st # "ok" THEN EErr(IF msg = "" THEN h.err ELSE msg)
    ELSE IF t.st # "ok" THEN t
    ELSE EOk(h.b \o t.b)

\* the entry size counting the key and the value but not the key-length byte
fieldEntryBytesShort(key, ev) ==
    IF ev.st # "ok" THEN ev
    ELSE IF Len(key) > MaxKeyLen THEN EErr("key too long, maximum 255 bytes")
    ELSE EOk(Tail(encodeUint(W64(Len(key) + Len(ev.b))))
             \o <<Len(key)>> \o key \o ev.b)

\* the key length written as byte(keyLen) whatever the key's length
fieldEntryBytesUnchecked(key, ev) ==
    IF ev.st # "ok" THEN ev
    ELSE EOk(Tail(encodeUint(W64(1 + Len(key) + Len(ev.b))))
             \o <<Len(key) % 256>> \o key \o ev.b)

\* entry size, key length, key, encoded value
fieldEntryBytes(key, ev) ==
    IF ev.st # "ok" THEN ev
    ELSE IF Len(key) > MaxKeyLen THEN EErr("key too long, maximum 255 bytes")
    ELSE EOk(Tail(encodeUint(W64(1 + Len(key) + Len(ev.b))))
             \o <<Len(key)>> \o key \o ev.b)

\* encodeArray, which later drafts call encodeList: every element with its
\* own kind byte, framed by the byte length of the elements
encodeList(v) ==
    IF v.k \notin SliceKinds \cup {"[]uint8"} THEN EErr("type is not a array type")
    ELSE framedBytes(TypeUntypedList, encodeElems(Elems(v)))

encodeElems(l) ==
    IF l = <<>> THEN EOk(<<>>)
    ELSE joinedBytes(encode(Head(l)), encodeElems(Tail(l)),
                     "array encoder error: error encoding element in array")

encodeFieldEntry(key, value) == fieldEntryBytes(key, encode(value))

encodeFields(l) ==
    IF l = <<>> THEN EOk(<<>>)
    ELSE joinedBytes(encodeFieldEntry(Head(l).key, Head(l).val), encodeFields(Tail(l)),
                     "object encoder error: failed to encode field")

encodeMap(v) == framedBytes(TypeObject, encodeFields(v.l))

encodeObject(v) ==
    IF v.k = "map[string]any" THEN encodeMap(v)
    ELSE EErr("object encoder error: object type not supported")

\* the legacy struct path: the parsed fields become a map[string]any
encodeStruct(v) == encodeObject(ObjV(v.l))

\* the element kind encodeTypedList chooses from the slice's static type
\* (-1: no compaction for this element type)
elementTypeCode(k) ==
    CASE k = "[]string" -> TypeString
      [] k \in {"[]int", "[]int64"} -> TypeInt
      [] k = "[]uint8" -> TypeByte
      [] k = "[]uint64" -> TypeUint
      [] k = "[]float64" -> TypeFloat
      [] k = "[]bool" -> TypeBoolTrue
      [] OTHER -> -1

\* element bodies without their kind byte
RECURSIVE typedElems(_, _)
typedElems(code, l) ==
    IF l = <<>> THEN <<>>
    ELSE LET e == Head(l) IN
         (CASE code = TypeString -> Tail(encodeUint(W64(Len(e.b)))) \o e.b
            [] code = TypeInt -> Tail(encodeInt(e.w))
            [] code = TypeUint -> Tail(encodeUint(e.w))
            [] code = TypeByte -> <<e.n>>
            [] code = TypeFloat -> Tail(encodeFloat(e.w))
            [] OTHER -> <<e.n>>)
         \o typedElems(code, Tail(l))

\* totalLength := 1 + len(countData) - 1 + len(elementsData), where the
\* countData here is the code's countData[1:]
typedListBytes(code, countData, elementsData) ==
    EOk(<<TypeTypedList>> \o Tail(encodeUint(W64(1 + Len(countData) + Len(elementsData))))
        \o <<code>> \o countData \o elementsData)

encodeTypedList(v) ==
    IF v.k \notin SliceKinds \cup {"[]uint8"}
    THEN EErr("typed list encoder: type is not list/slice")
    ELSE IF Len(Elems(v)) = 0 THEN encodeList(v)
    ELSE IF \E i \in 2..Len(Elems(v)) : Elems(v)[i].k # Elems(v)[1].k THEN encodeList(v)
    ELSE IF elementTypeCode(v.k) = -1 THEN encodeList(v)
    ELSE typedListBytes(elementTypeCode(v.k), Tail(encodeUint(W64(Len(Elems(v))))),
                        typedElems(elementTypeCode(v.k), Elems(v)))

encode(v) ==
    IF isNullValue(v) THEN EOk(encodeNull)
    ELSE CASE v.k = "time.Time" -> EOk(encodeTimestamp(v.w))
           [] v.k = "bool" -> EOk(encodeBool(v))
           [] v.k = "string" -> EOk(encodeString(v.b))
           [] v.k = "uint8" -> EOk(encodeByte(v))
           [] v.k \in SignedKinds \cup UnsignedKinds \cup FloatKinds -> encodeNum(v)
           [] v.k = "[]uint8" -> EOk(encodeBlob(v.b))
           [] v.k \in SliceKinds -> encodeList(v)
           [] v.k = "map[string]any" -> encodeObject(v)
           [] v.k = "struct" -> encodeStruct(v)
           [] OTHER -> EErr("bogo error: unsupported type")

(***************************************************************************)
(* isValidUTF8 (src/encoder.go): ranging over a Go string yields U+FFFD    *)
(* for every byte that starts no well-formed UTF-8 sequence, and for a     *)
(* well-formed encoding of U+FFFD itself.                                  *)
(***************************************************************************)
RuneError == 65533

IsCont(s, i, lo, hi) == i <= Len(s) /\ s[i] >= lo /\ s[i] <= hi

\* utf8.DecodeRuneInString on the head of s: the rune and its width
DecodeRune(s) ==
    LET b0 == s[1]
        bad == [rune |-> RuneError, size |-> 1]
        two == b0 >= 194 /\ b0 <= 223
        three == b0 >= 224 /\ b0 <= 239
        four == b0 >= 240 /\ b0 <= 244
        lo2 == IF b0 = 224 THEN 160 ELSE IF b0 = 240 THEN 144 ELSE 128
        hi2 == IF b0 = 237 THEN 159 ELSE IF b0 = 244 THEN 143 ELSE 191
    IN  IF b0 < 128 THEN [rune |-> b0, size |-> 1]
        ELSE IF two
        THEN IF IsCont(s, 2, 128, 191)
             THEN [rune |-> (b0 % 32) * 64 + (s[2] % 64), size |-> 2] ELSE bad
        ELSE IF three
        THEN IF IsCont(s, 2, lo2, hi2) /\ IsCont(s, 3, 128, 191)
             THEN [rune |-> (b0 % 16) * 4096 + (s[2] % 64) * 64 + (s[3] % 64),
                   size |-> 3]
             ELSE bad
        ELSE IF four
        THEN IF IsCont(s, 2, lo2, hi2) /\ IsCont(s, 3, 128, 191) /\ IsCont(s, 4, 128, 191)
             THEN [rune |-> (b0 % 8) * 262144 + (s[2] % 64) * 4096
                            + (s[3] % 64) * 64 + (s[4] % 64),
                   size |-> 4]
             ELSE bad
        ELSE bad

\* for _, r := range s: bytes below 0x80 are runes of their own, so the
\* loop is followed rune by rune only from the first byte that is not
RECURSIVE validRunes(_)
validRunes(s) ==
    IF s = <<>> THEN TRUE
    ELSE LET r == DecodeRune(s) IN
         IF r.rune = RuneError THEN FALSE
         ELSE validRunes(SubSeq(s, r.size + 1, Len(s)))

isValidUTF8(s) ==
    IF \A i \in DOMAIN s : s[i] < 128 THEN TRUE
    ELSE validRunes(SubSeq(s, CHOOSE i \in DOMAIN s :
                                 s[i] >= 128 /\ \A j \in 1..(i - 1) : s[j] < 128,
                           Len(s)))

(***************************************************************************)
(* The configurable Encoder (src/encoder.go).  e holds the options; depth  *)
(* is the value of e.depth on entry (every method that increments it       *)
(* restores it with a deferred decrement).                                 *)
(***************************************************************************)
DefaultMaxDepth == 100

\* NewConfigurableEncoder()
DefaultEncoder ==
    [MaxDepth |-> DefaultMaxDepth, StrictMode |-> FALSE,
     CompactLists |-> TRUE, ValidateStrings |-> TRUE]

RECURSIVE Encoder_encode(_, _, _), Encoder_encodeFields(_, _, _)

Encoder_encodeListWithDepth(e, depth, v) == encodeList(v)

Encoder_encodeTypedListWithDepth(e, depth, v) == encodeTypedList(v)

\* the entry's value written as Encoder.Encode returns it, version byte included
Encoder_encodeFieldEntryVersioned(e, depth, key, value) ==
    fieldEntryBytes(key, joinedBytes(EOk(<<Version>>), Encoder_encode(e, depth, value), ""))

Encoder_encodeFieldEntryWithDepth(e, depth, key, value) ==
    fieldEntryBytes(key, Encoder_encode(e, depth, value))

Encoder_encodeFields(e, depth, l) ==
    IF l = <<>> THEN EOk(<<>>)
    ELSE joinedBytes(Encoder_encodeFieldEntryWithDepth(e, depth, Head(l).key, Head(l).val),
                     Encoder_encodeFields(e, depth, Tail(l)),
                     "")                    \* wrapped with %w: the cause is kept

Encoder_encodeMapWithDepth(e, depth, v) ==
    framedBytes(TypeObject, Encoder_encodeFields(e, depth, v.l))

\* the strict-mode key loop: the first offending key in iteration order
RECURSIVE strictKeyError(_, _)
strictKeyError(e, l) ==
    IF l = <<>> THEN ""
    ELSE IF Len(Head(l).key) > MaxKeyLen THEN "bogo encode error: object key too long"
    ELSE IF e.ValidateStrings /\ ~isValidUTF8(Head(l).key)
    THEN "bogo encode error: invalid UTF-8 in object key"
    ELSE strictKeyError(e, Tail(l))

Encoder_encodeObjectWithDepth(e, depth, v) ==
    IF e.MaxDepth > 0 /\ depth >= e.MaxDepth
    THEN EErr("bogo encode error: maximum nesting depth exceeded")
    ELSE IF e.StrictMode /\ strictKeyError(e, v.l) # ""
    THEN EErr(strictKeyError(e, v.l))
    ELSE Encoder_encodeMapWithDepth(e, depth + 1, v)

\* exported fields become the entries of a map[string]any
Encoder_encodeStruct(e, depth, v) == Encoder_encodeObjectWithDepth(e, depth, ObjV(v.l))

\* every element boxed into a []any
Encoder_encodeReflectedList(e, depth, v) ==
    Encoder_encodeListWithDepth(e, depth, ListV("[]any", Elems(v)))

Encoder_encodeReflected(e, depth, v) ==
    CASE v.k = "struct" -> Encoder_encodeStruct(e, depth, v)
      [] v.k \in SliceKinds -> Encoder_encodeReflectedList(e, depth, v)
      [] OTHER -> encode(v)

Encoder_encode(e, depth, v) ==
    IF e.MaxDepth > 0 /\ depth > e.MaxDepth
    THEN EErr("bogo encode error: maximum nesting depth exceeded")
    ELSE IF isNullValue(v) THEN EOk(encodeNull)
    ELSE CASE v.k = "string" ->
                IF e.ValidateStrings /\ ~isValidUTF8(v.b)
                THEN EErr("bogo encode error: invalid UTF-8 string")
                ELSE EOk(encodeString(v.b))
           [] v.k = "bool" -> EOk(encodeBool(v))
           [] v.k = "uint8" -> EOk(encodeByte(v))
           [] v.k = "[]uint8" -> EOk(encodeBlob(v.b))
           [] v.k = "time.Time" -> EOk(encodeTimestamp(v.w))
           [] v.k \in {"[]string", "[]int", "[]int64", "[]float64", "[]bool"} ->
                IF e.CompactLists THEN Encoder_encodeTypedListWithDepth(e, depth, v)
                ELSE Encoder_encodeListWithDepth(e, depth, v)
           [] v.k = "map[string]any" -> Encoder_encodeObjectWithDepth(e, depth, v)
           [] OTHER -> Encoder_encodeReflected(e, depth, v)

\* Encoder.Encode: e.depth = 0, then the version byte in front
versioned(r) == IF r.st # "ok" THEN r ELSE EOk(<<Version>> \o r.b)
Encoder_Encode(e, v) == versioned(Encoder_encode(e, 0, v))

\* the package-level Encode and Marshal use the default encoder
Encode(v) == Encoder_Encode(DefaultEncoder, v)

(***************************************************************************)
(* e.depth through one call of Encoder.Encode (src/encoder.go).  A track   *)
(* holds the counter as the call proceeds: its value now, the least and    *)
(* the greatest value it has had since the call began, and whether the     *)
(* call is still succeeding.                                               *)
(***************************************************************************)
Track(st, depth, low, high) == [st |-> st, depth |-> depth, low |-> low, high |-> high]

\* e.depth = 0 at the head of Encode
Reset(depth) == Track("ok", 0, 0, 0)
\* e.depth++
Inc(t) == Track(t.st, t.depth + 1, t.low, IF t.depth + 1 > t.high THEN t.depth + 1 ELSE t.high)
\* defer func() { e.depth-- }()
Dec(t) == Track(t.st, t.depth - 1, IF t.depth - 1 < t.low THEN t.depth - 1 ELSE t.low, t.high)
Failed(t) == Track("err", t.depth, t.low, t.high)
Outcome(t, st) == Track(st, t.depth, t.low, t.high)

RECURSIVE Encoder_trackEncode(_, _, _), Encoder_trackObject(_, _, _),
          Encoder_trackFields(_, _, _), Encoder_trackEntry(_, _, _, _)

\* encodeFieldEntryWithDepth, then the next entry of the range loop
Encoder_trackEntry(e, t, key, rest) ==
    IF t.st # "ok" THEN t
    ELSE IF Len(key) > MaxKeyLen THEN Failed(t)
    ELSE Encoder_trackFields(e, t, rest)

Encoder_trackFields(e, t, l) ==
    IF l = <<>> THEN t
    ELSE Encoder_trackEntry(e, Encoder_trackEncode(e, t, Head(l).val), Head(l).key, Tail(l))

\* encodeObjectWithDepth whose decrement runs only when the fields were
\* encoded, not on the way out of a failure
Encoder_trackObjectUndeferred(e, t, v) ==
    IF e.MaxDepth > 0 /\ t.depth >= e.MaxDepth THEN Failed(t)
    ELSE IF e.StrictMode /\ strictKeyError(e, v.l) # "" THEN Failed(Inc(t))
    ELSE IF Encoder_trackFields(e, Inc(t), v.l).st # "ok"
    THEN Encoder_trackFields(e, Inc(t), v.l)
    ELSE Dec(Encoder_trackFields(e, Inc(t), v.l))

\* encodeObjectWithDepth: the check, e.depth++, the deferred e.depth--
Encoder_trackObject(e, t, v) ==
    IF e.MaxDepth > 0 /\ t.depth >= e.MaxDepth THEN Failed(t)
    ELSE IF e.StrictMode /\ strictKeyError(e, v.l) # "" THEN Dec(Failed(Inc(t)))
    ELSE Dec(Encoder_trackFields(e, Inc(t), v.l))

\* Encoder.encode: objects and structs enter encodeObjectWithDepth; lists
\* enter encodeListWithDepth or encodeTypedListWithDepth, which count the
\* list and leave the elements to the package-level encoder
Encoder_trackEncode(e, t, v) ==
    IF e.MaxDepth > 0 /\ t.depth > e.MaxDepth THEN Failed(t)
    ELSE IF isNullValue(v) THEN t
    ELSE IF v.k \in {"map[string]any", "struct"} THEN Encoder_trackObject(e, t, ObjV(v.l))
    ELSE IF v.k \in SliceKinds
    THEN Dec(Outcome(Inc(t), Encoder_encode(e, t.depth, v).st))
    ELSE Outcome(t, Encoder_encode(e, t.depth, v).st)

\* Encoder.Encode called while e.depth is depth
Encoder_trackEncodeCall(e, depth, v) == Encoder_trackEncode(e, Reset(depth), v)

(***************************************************************************)
(* Scalar decoders (src/unnamed/part_007, src/string.go, src/blob.go,      *)
(* src/timestamp.go, src/unnamed/part_000).  data is a Go slice.           *)
(***************************************************************************)
NOk(w) == [st |-> "ok", w |-> w, err |-> ""]
NErr(msg) == [st |-> "err", w |-> Zero64, err |-> msg]

decodeUint(buf) ==
    LET r == Uvarint(buf) IN
    IF r.n <= 0 THEN NErr("failed to decode uint") ELSE NOk(r.val)

decodeInt(buf) ==
    LET r == Varint(buf) IN
    IF r.n <= 0 THEN DErr("failed to decode int") ELSE DOk(NumV("int64", r.val))

decodeUintValue(buf) ==
    LET r == decodeUint(buf) IN
    IF r.st # "ok" THEN DErr(r.err) ELSE DOk(NumV("uint64", r.w))

\* The frame the blob, the typed list, the object, the entry and the
\* untyped list share: one byte
\* sizeLen, sizeLen bytes of uvarint size, size bytes of content.
\*     if len(data) < sizeLen+1 { return errSize }
\*     size, err := decodeUint(data[1 : 1+sizeLen])
\*     end := 1 + sizeLen + int(size); if len(data) < end { return errContent }
\*     content := data[1+sizeLen : end]
FrOk(body, end) == [st |-> "ok", body |-> body, end |-> end, err |-> ""]
FrFail(st, msg) == [st |-> st, body |-> Sl(<<>>), end |-> 0, err |-> msg]

FrameCut(data, start, end, errContent) ==
    IF SLen(data) < end THEN FrFail("err", errContent)
    ELSE IF ~SliceOK(data, start, end) THEN FrFail("panic", DPanic.err)
    ELSE FrOk(Slice(data, start, end), end)

FrameSized(data, start, size, errDecode, errContent) ==
    IF size.st # "ok" THEN FrFail("err", IF errDecode = "" THEN size.err ELSE errDecode)
    ELSE FrameCut(data, start, start + IntOf(size.w), errContent)

Frame(data, errSize, errDecode, errContent) ==
    IF SLen(data) < data.d[1] + 1 THEN FrFail("err", errSize)
    ELSE FrameSized(data, 1 + data.d[1], decodeUint(Slice(data, 1, 1 + data.d[1]).d),
                    errDecode, errContent)

\* bits := (uint64(sign) << 63) | (uint64(exp) << 52) | mantissa
floatOf(signExpo, m) ==
    IF m.n <= 0 THEN DErr("failed to decode mantissa")
    ELSE DOk(NumV("float64",
                  WOr(WOr(WShl(W64(signExpo \div 32768), 63), WShl(W64(signExpo % 32768), 52)),
                      m.val)))

\* signExpo := binary.LittleEndian.Uint16(data[:2]); binary.Uvarint(data[2:])
decodeFloat(data) ==
    IF SLen(data) = 0 THEN DErr("empty input")
    ELSE IF ~SliceOK(data, 0, 2) THEN DPanic
    ELSE IF ~SliceFromOK(data, 2) THEN DPanic
    ELSE floatOf(SAll(data)[1] + 256 * SAll(data)[2], Uvarint(SliceFrom(data, 2).d))

\* string(data[sizeLen : sizeLen+int(size)])
stringOf(data, sizeLen, size) ==
    IF size.st # "ok" THEN DErr(size.err)
    ELSE IF ~SliceOK(data, sizeLen, sizeLen + IntOf(size.w)) THEN DPanic
    ELSE DOk(StrV(Slice(data, sizeLen, sizeLen + IntOf(size.w)).d))

decodeString(data, sizeLen) ==
    IF ~SliceToOK(data, sizeLen) THEN DPanic
    ELSE stringOf(data, sizeLen, decodeUint(SliceTo(data, sizeLen).d))

decodeByte(data) ==
    IF SLen(data) < 1 THEN DErr("byte decode error: insufficient data, need 1 byte")
    ELSE DOk(ByteV(data.d[1]))

blobOf(fr) ==
    IF fr.st # "ok" THEN [st |-> fr.st, v |-> NilV, err |-> fr.err]
    ELSE DOk(BlobV(fr.body.d))

decodeBlob(data) ==
    IF SLen(data) = 0 THEN DOk(BlobV(<<>>))
    ELSE blobOf(Frame(data, "blob decode error: insufficient data for size",
                      "blob decode error: failed to decode uint",
                      "blob decode error: insufficient data for blob content"))

\* int64(binary.LittleEndian.Uint64(data[:8]))
LEWord(bytes) ==
    [i \in 1..WordBits |-> (bytes[((i - 1) \div 8) + 1] \div Pow2((i - 1) % 8)) % 2]

decodeTimestamp(data) ==
    IF SLen(data) < 8 THEN DErr("timestamp decode error: insufficient data, need 8 bytes")
    ELSE DOk(NumV("int64", LEWord(SubSeq(data.d, 1, 8))))

(***************************************************************************)
(* getElementSize (src/object.go): the byte length of the encoded value    *)
(* that starts at data[0].                                                 *)
(***************************************************************************)
SOk(n) == [st |-> "ok", n |-> n, err |-> ""]
SErr(msg) == [st |-> "err", n |-> 0, err |-> msg]

\* the String, Blob, list and Object cases: 2 + sizeLen + decoded size
framedSizeOf(sizeLen, size) ==
    IF size.st # "ok" THEN SErr(size.err) ELSE SOk(2 + sizeLen + IntOf(size.w))

framedSize(data, what) ==
    IF SLen(data) < 2 THEN SErr("insufficient data for " \o what \o " size")
    ELSE IF SLen(data) < 2 + data.d[2]
    THEN SErr("insufficient data for " \o what \o " size value")
    ELSE framedSizeOf(data.d[2], decodeUint(Slice(data, 2, 2 + data.d[2]).d))

getElementSize(data) ==
    IF SLen(data) = 0 THEN SErr("empty data")
    ELSE LET t == data.d[1] IN
         CASE t \in {TypeNull, TypeBoolTrue, TypeBoolFalse} -> SOk(1)
           [] t = TypeByte -> SOk(2)
           [] t = TypeString -> framedSize(data, "string")
           [] t \in {TypeInt, TypeUint, TypeFloat} ->
                IF SLen(data) < 2 THEN SErr("insufficient data for numeric size")
                ELSE SOk(2 + data.d[2])
           [] t = TypeBlob -> framedSize(data, "blob")
           [] t = TypeTimestamp -> SOk(9)
           [] t = TypeUntypedList -> framedSize(data, "array")
           [] t = TypeTypedList -> framedSize(data, "typed array")
           [] t = TypeObject -> framedSize(data, "object")
           [] OTHER -> SErr("unsupported type")

(***************************************************************************)
(* decodeTypedList (src/typed_list.go).                                    *)
(***************************************************************************)
\* the loops over the length-prefixed element bodies (String, Int, Uint,
\* Float): i elements are still to be read from position pos
RECURSIVE typedLoop(_, _, _, _, _)

\* the word each case of the switch puts in its messages
elementName(code) ==
    CASE code = TypeString -> "string"
      [] code = TypeInt -> "int"
      [] code = TypeUint -> "uint"
      [] OTHER -> "float"

\* result[i] = string(elementsData[pos : pos+int(strLen)]); pos += int(strLen)
typedStringBody(elementsData, pos, end, i, acc) ==
    IF end > SLen(elementsData)
    THEN DErr("typed list decode error: insufficient string content data")
    ELSE IF ~SliceOK(elementsData, pos, end) THEN DPanic
    ELSE typedLoop(TypeString, elementsData, end, i - 1,
                   Append(acc, StrV(Slice(elementsData, pos, end).d)))

typedString(elementsData, pos, i, acc, strLen) ==
    IF strLen.st # "ok" THEN DErr("typed list decode error: failed to decode string length")
    ELSE typedStringBody(elementsData, pos, pos + IntOf(strLen.w), i, acc)

\* result[i] = val; pos += lenSize
typedNumber(code, elementsData, pos, i, acc, val) ==
    IF val.st = "panic" THEN DPanic
    ELSE IF val.st # "ok"
    THEN DErr("typed list decode error: failed to decode " \o elementName(code))
    ELSE typedLoop(code, elementsData, pos, i - 1, Append(acc, val.v))

\* body is elementsData[pos : pos+lenSize], next the position after it
typedElement(code, elementsData, next, i, acc, body) ==
    CASE code = TypeString -> typedString(elementsData, next, i, acc, decodeUint(body.d))
      [] code = TypeInt -> typedNumber(code, elementsData, next, i, acc, decodeInt(body.d))
      [] code = TypeUint -> typedNumber(code, elementsData, next, i, acc, decodeUintValue(body.d))
      [] OTHER -> typedNumber(code, elementsData, next, i, acc, decodeFloat(body))

typedLoop(code, elementsData, pos, i, acc) ==
    IF i = 0 THEN DOk(acc)
    ELSE IF pos >= SLen(elementsData)
    THEN DErr("typed list decode error: insufficient " \o elementName(code) \o " data")
    ELSE IF pos + 1 + elementsData.d[pos + 1] > SLen(elementsData)
    THEN DErr("typed list decode error: insufficient " \o elementName(code) \o " length data")
    ELSE typedElement(code, elementsData, pos + 1 + elementsData.d[pos + 1], i, acc,
                      Slice(elementsData, pos + 1, pos + 1 + elementsData.d[pos + 1]))

typedListResult(k, r) == IF r.st # "ok" THEN r ELSE DOk(ListV(k, r.v))

\* switch elementType { ... } over the n elements in elementsData
typedListOf(elementType, n, elementsData) ==
    CASE elementType = TypeByte ->
           IF SLen(elementsData) # n
           THEN DErr("typed list decode error: byte list size mismatch")
           ELSE DOk(BlobV(elementsData.d))
      [] elementType \in {TypeString, TypeInt, TypeUint, TypeFloat, TypeBoolTrue} ->
           \* make([]T, count) panics when count is beyond what can be allocated
           IF n < 0 \/ n >= Pow2(30) THEN DPanic
           ELSE IF elementType = TypeBoolTrue
           THEN IF SLen(elementsData) # n
                THEN DErr("typed list decode error: bool list size mismatch")
                ELSE DOk(ListV("[]bool", [i \in 1..n |-> BoolV(elementsData.d[i] = 1)]))
           ELSE typedListResult(CASE elementType = TypeString -> "[]string"
                                  [] elementType = TypeInt -> "[]int64"
                                  [] elementType = TypeUint -> "[]uint64"
                                  [] OTHER -> "[]float64",
                                typedLoop(elementType, elementsData, 0, n, <<>>))
      [] OTHER -> DErr("typed list decode error: unsupported element type")

typedListElements(elementType, count, elementsData) ==
    IF count.st # "ok" THEN DErr("typed list decode error: failed to decode count")
    ELSE typedListOf(elementType, IntOf(count.w), elementsData)

\* listData = listData[1:], then the length-prefixed count
typedListCount(elementType, listData) ==
    IF SLen(listData) < 1 THEN DErr("typed list decode error: no count info")
    ELSE IF SLen(listData) < listData.d[1] + 1
    THEN DErr("typed list decode error: insufficient count data")
    ELSE typedListElements(elementType, decodeUint(Slice(listData, 1, 1 + listData.d[1]).d),
                           SliceFrom(listData, 1 + listData.d[1]))

typedListData(fr) ==
    IF fr.st # "ok" THEN [st |-> fr.st, v |-> NilV, err |-> fr.err]
    ELSE IF SLen(fr.body) < 1 THEN DErr("typed list decode error: no element type")
    ELSE typedListCount(fr.body.d[1], SliceFrom(fr.body, 1))

decodeTypedList(data) ==
    IF SLen(data) < 2 THEN DErr("typed list decode error: insufficient data for size")
    ELSE typedListData(Frame(data, "typed list decode error: insufficient data for size info",
                             "typed list decode error: failed to decode uint",
                             "typed list decode error: insufficient data for content"))

(***************************************************************************)
(* Object and untyped-list decoders (src/object.go).                       *)
(***************************************************************************)
\* result[key] = value on a Go map: the last write for a key wins
MapPut(m, key, val) == {e \in m : e.key # key} \cup {Entry(key, val)}
MapKeys(m) == {e.key : e \in m}
MapGet(m, key) == (CHOOSE e \in m : e.key = key).val

\* the panic a nested call raised unwinds through every caller
DHang == [st |-> "hang", v |-> NilV, err |-> "does not return"]

RECURSIVE decodeValue(_), decodeObject(_), decodeFieldEntry(_),
          decodeArrayValue(_), objectLoop(_, _, _), arrayLoop(_, _, _),
          objectStep(_, _, _, _), arrayStep(_, _, _, _, _)

FOk(key, val, n) == [st |-> "ok", key |-> key, v |-> val, n |-> n, err |-> ""]
FFail(st, msg) == [st |-> st, key |-> <<>>, v |-> NilV, n |-> 0, err |-> msg]

\* return key, value, entryEnd, nil
fieldEntryResult(key, value, entryEnd) ==
    IF value.st # "ok" THEN FFail(value.st, value.err) ELSE FOk(key, value.v, entryEnd)

\* entryData holds keyLen, the key and the value
fieldEntryOf(fr) ==
    IF fr.st # "ok" THEN FFail(fr.st, fr.err)
    ELSE IF SLen(fr.body) < 1 THEN FFail("err", "insufficient data for key length")
    ELSE IF SLen(fr.body) < 1 + fr.body.d[1] THEN FFail("err", "insufficient data for key")
    ELSE fieldEntryResult(Slice(fr.body, 1, 1 + fr.body.d[1]).d,
                          decodeValue(SliceFrom(fr.body, 1 + fr.body.d[1])),
                          fr.end)

decodeFieldEntry(data) ==
    IF SLen(data) = 0 THEN FFail("err", "empty field entry data")
    ELSE fieldEntryOf(Frame(data, "insufficient data for entry size", "",
                            "insufficient data for entry content"))

\* result[key] = value; pos += bytesRead
objectStep(fieldsData, pos, result, f) ==
    IF f.st = "err" THEN DErr("object decoder error: failed to decode field entry")
    ELSE IF f.st # "ok" THEN [st |-> f.st, v |-> NilV, err |-> f.err]
    ELSE objectLoop(fieldsData, pos + f.n, MapPut(result, f.key, f.v))

\* for pos < len(fieldsData) { key, value, bytesRead, err := decodeFieldEntry(fieldsData[pos:]) ... }
objectLoop(fieldsData, pos, result) ==
    IF pos >= SLen(fieldsData) THEN DOk(MapV(result))
    ELSE objectStep(fieldsData, pos, result, decodeFieldEntry(SliceFrom(fieldsData, pos)))

objectFields(fr) ==
    IF fr.st # "ok" THEN [st |-> fr.st, v |-> NilV, err |-> fr.err]
    ELSE objectLoop(fr.body, 0, {})

decodeObject(data) ==
    IF SLen(data) = 0 THEN DOk(MapV({}))
    ELSE objectFields(Frame(data, "object decoder error: insufficient data for field size",
                            "object decoder error: failed to decode fields size",
                            "object decoder error: insufficient data for fields"))

\* result = append(result, element); pos += elementSize.  A size of 0 never
\* advances pos; a negative one makes the next arrayData[pos:] panic.
arrayStep(arrayData, pos, result, element, elementSize) ==
    IF element.st # "ok" THEN element
    ELSE IF elementSize.st # "ok" THEN DErr(elementSize.err)
    ELSE IF elementSize.n = 0 THEN DHang
    ELSE IF pos + elementSize.n < 0 THEN DPanic
    ELSE arrayLoop(arrayData, pos + elementSize.n, Append(result, element.v))

\* for pos < len(arrayData) { decodeValue(arrayData[pos:]); getElementSize(arrayData[pos:]) ... }
arrayLoop(arrayData, pos, result) ==
    IF pos >= SLen(arrayData) THEN DOk(ListV("[]any", result))
    ELSE arrayStep(arrayData, pos, result, decodeValue(SliceFrom(arrayData, pos)),
                   getElementSize(SliceFrom(arrayData, pos)))

arrayElements(fr) ==
    IF fr.st # "ok" THEN [st |-> fr.st, v |-> NilV, err |-> fr.err]
    ELSE arrayLoop(fr.body, 0, <<>>)

decodeArrayValue(data) ==
    IF SLen(data) = 0 THEN DOk(ListV("[]any", <<>>))
    ELSE arrayElements(Frame(data, "insufficient data for array size", "",
                             "insufficient data for array content"))

\* decodeValue indexes data[1] and slices data[2 : 2+sizeLen] unchecked
decodeValue(data) ==
    IF SLen(data) = 0 THEN DOk(NilV)
    ELSE LET t == data.d[1] IN
    CASE t = TypeNull -> DOk(NilV)
      [] t = TypeBoolTrue -> DOk(BoolV(TRUE))
      [] t = TypeBoolFalse -> DOk(BoolV(FALSE))
      [] t = TypeString ->
           IF SLen(data) < 2 THEN DPanic
           ELSE decodeString(SliceFrom(data, 2), data.d[2])
      [] t = TypeByte -> decodeByte(SliceFrom(data, 1))
      [] t \in {TypeInt, TypeUint, TypeFloat} ->
           IF SLen(data) < 2 THEN DPanic
           ELSE IF ~SliceOK(data, 2, 2 + data.d[2]) THEN DPanic
           ELSE LET body == Slice(data, 2, 2 + data.d[2]) IN
                CASE t = TypeInt -> decodeInt(body.d)
                  [] t = TypeUint -> decodeUintValue(body.d)
                  [] OTHER -> decodeFloat(body)
      [] t = TypeBlob -> decodeBlob(SliceFrom(data, 1))
      [] t = TypeTimestamp -> decodeTimestamp(SliceFrom(data, 1))
      [] t = TypeUntypedList -> decodeArrayValue(SliceFrom(data, 1))
      [] t = TypeTypedList -> decodeTypedList(SliceFrom(data, 1))
      [] t = TypeObject -> decodeObject(SliceFrom(data, 1))
      [] OTHER -> DErr("unsupported value type")

(***************************************************************************)
(* Package-level Decode (src/bogo.go).                                     *)
(***************************************************************************)
\* data[2] and data[3 : 3+sizeLen] are read without a length check
\* time.UnixMilli(timestamp).UTC()
timeOf(timestamp) == IF timestamp.st # "ok" THEN timestamp ELSE DOk(TimeV(timestamp.v.w))

Decode(data) ==
    IF SLen(data) < 2
    THEN DErr("bogo decode error: insufficient data, need at least 2 bytes for version and type")
    ELSE IF data.d[1] # Version THEN DErr("bogo decode error: unsupported version")
    ELSE LET t == data.d[2] IN
    CASE t = TypeNull -> DOk(NilV)
      [] t = TypeBoolTrue -> DOk(BoolV(TRUE))
      [] t = TypeBoolFalse -> DOk(BoolV(FALSE))
      [] t = TypeString ->
           IF SLen(data) < 3 THEN DPanic
           ELSE decodeString(SliceFrom(data, 3), data.d[3])
      [] t \in {TypeInt, TypeUint, TypeFloat} ->
           IF SLen(data) < 3 THEN DPanic
           ELSE IF ~SliceOK(data, 3, 3 + data.d[3]) THEN DPanic
           ELSE LET body == Slice(data, 3, 3 + data.d[3]) IN
                CASE t = TypeInt -> decodeInt(body.d)
                  [] t = TypeUint -> decodeUintValue(body.d)
                  [] OTHER -> decodeFloat(body)
      [] t = TypeBlob -> decodeBlob(SliceFrom(data, 2))
      [] t = TypeTimestamp ->
           timeOf(decodeTimestamp(SliceFrom(data, 2)))
      [] t = TypeByte -> decodeByte(SliceFrom(data, 2))
      [] t = TypeUntypedList -> decodeArrayValue(SliceFrom(data, 2))
      [] t = TypeTypedList -> decodeTypedList(SliceFrom(data, 2))
      [] t = TypeObject -> decodeObject(SliceFrom(data, 2))
      [] OTHER -> DErr("type coder not supported")

(***************************************************************************)
(* The configurable Decoder (src/decoder.go).  A decoder is its option     *)
(* record; the counters depth and bytesProcessed are returned with each    *)
(* result (bp is the value of bytesProcessed when the call returns; depth  *)
(* is restored by the deferred decrement on every path).                   *)
(***************************************************************************)
MaxObjectSizeDefault == 10 * 1024 * 1024

DefaultDecoder ==
    [MaxDepth |-> DefaultMaxDepth, StrictMode |-> FALSE, AllowUnknownTypes |-> FALSE,
     MaxObjectSize |-> MaxObjectSizeDefault, ValidateUTF8 |-> TRUE,
     SelectiveFields |-> <<>>]

WithBP(r, bp) == [st |-> r.st, v |-> r.v, err |-> r.err, bp |-> bp]

Decoder_decodeByteSafe(d, data) ==
    IF SLen(data) < 1 THEN DErr("bogo decode error: insufficient data for byte")
    ELSE DOk(ByteV(data.d[1]))

blobWithinLimit(d, blob) ==
    IF blob.st # "ok" THEN blob
    ELSE IF d.MaxObjectSize > 0 /\ Len(blob.v.b) > d.MaxObjectSize
    THEN DErr("bogo decode error: blob too large")
    ELSE blob

Decoder_decodeBlobSafe(d, data) == blobWithinLimit(d, decodeBlob(data))

Decoder_decodeTimestampSafe(d, data) == decodeTimestamp(data)

Decoder_decodeArrayWithDepth(d, data) ==
    DErr("bogo decode error: array decoding with depth tracking not yet implemented")

Decoder_decodeTypedArraySafe(d, data) == decodeTypedList(data)

objectWithValidKeys(d, obj) ==
    IF obj.st # "ok" THEN obj
    ELSE IF d.StrictMode /\ d.ValidateUTF8
            /\ \E key \in MapKeys(obj.v.m) : ~isValidUTF8(key)
    THEN DErr("bogo decode error: invalid UTF-8 in object key")
    ELSE obj

Decoder_decodeObjectWithDepth(d, data) == objectWithValidKeys(d, decodeObject(data))

\* decodeValueSelective handing every value, objects too, to the full decoder
Decoder_decodeValueFully(d, data, bp0) ==
    IF SLen(data) = 0 THEN WithBP(DOk(NilV), bp0)
    ELSE WithBP(decodeValue(data), bp0 + SLen(data))

RECURSIVE Decoder_decodeObjectSelective(_, _, _), Decoder_decodeValueSelective(_, _, _),
          selectiveLoop(_, _, _, _, _), selectiveEntry(_, _, _, _, _, _),
          selectiveStore(_, _, _, _, _, _), selectiveFields(_, _, _)

wantedFields(d) == {d.SelectiveFields[i] : i \in 1..Len(d.SelectiveFields)}

\* result[key] = value; pos = entryEnd
selectiveStore(d, fieldsData, entryEnd, result, key, value) ==
    IF value.st = "err" THEN WithBP(DErr(value.err), value.bp)   \* %w keeps the cause's text
    ELSE IF value.st # "ok" THEN value
    ELSE selectiveLoop(d, fieldsData, entryEnd, MapPut(result, key, value.v), value.bp)

\* the entry at pos, cut out as fr; fr.end counts from pos
selectiveEntry(d, fieldsData, pos, result, bp, fr) ==
    IF fr.st # "ok" THEN WithBP([st |-> fr.st, v |-> NilV, err |-> fr.err], bp)
    ELSE IF SLen(fr.body) < 1
    THEN WithBP(DErr("bogo decode error: insufficient data for key length"), bp)
    ELSE IF SLen(fr.body) < 1 + fr.body.d[1]
    THEN WithBP(DErr("bogo decode error: insufficient data for key"), bp)
    ELSE IF Slice(fr.body, 1, 1 + fr.body.d[1]).d \in wantedFields(d)
    THEN selectiveStore(d, fieldsData, pos + fr.end, result,
                        Slice(fr.body, 1, 1 + fr.body.d[1]).d,
                        Decoder_decodeValueSelective(d, SliceFrom(fr.body, 1 + fr.body.d[1]), bp))
    ELSE selectiveLoop(d, fieldsData, pos + fr.end, result, bp)

\* for pos < len(fieldsData) && len(result) < len(d.SelectiveFields) { ... }
selectiveLoop(d, fieldsData, pos, result, bp) ==
    IF ~(pos < SLen(fieldsData) /\ Cardinality(result) < Len(d.SelectiveFields))
    THEN WithBP(DOk(MapV(result)), bp)
    ELSE selectiveEntry(d, fieldsData, pos, result, bp,
                        Frame(SliceFrom(fieldsData, pos),
                              "bogo decode error: insufficient data for entry size",
                              "bogo decode error: failed to decode entry size",
                              "bogo decode error: insufficient data for entry content"))

selectiveFields(d, fr, bp) ==
    IF fr.st # "ok" THEN WithBP([st |-> fr.st, v |-> NilV, err |-> fr.err], bp)
    ELSE selectiveLoop(d, fr.body, 0, {}, bp)

Decoder_decodeObjectSelective(d, data, bp) ==
    IF SLen(data) = 0 THEN WithBP(DOk(MapV({})), bp)
    ELSE selectiveFields(d, Frame(data, "bogo decode error: insufficient data for field size",
                                  "bogo decode error: failed to decode fields size",
                                  "bogo decode error: insufficient data for fields"), bp)

Decoder_decodeValueSelective(d, data, bp0) ==
    IF SLen(data) = 0 THEN WithBP(DOk(NilV), bp0)
    ELSE LET bp == bp0 + SLen(data)
             t == data.d[1]
         IN
    CASE t = TypeNull -> WithBP(DOk(NilV), bp)
      [] t = TypeBoolTrue -> WithBP(DOk(BoolV(TRUE)), bp)
      [] t = TypeBoolFalse -> WithBP(DOk(BoolV(FALSE)), bp)
      [] t = TypeString ->
           IF SLen(data) < 2
           THEN WithBP(DErr("bogo decode error: insufficient data for string size"), bp)
           ELSE IF SLen(data) < 2 + data.d[2]
           THEN WithBP(DErr("bogo decode error: insufficient data for string size info"), bp)
           ELSE WithBP(decodeString(SliceFrom(data, 2), data.d[2]), bp)
      [] t = TypeByte ->
           IF SLen(data) < 2
           THEN WithBP(DErr("bogo decode error: insufficient data for byte"), bp)
           ELSE WithBP(DOk(ByteV(data.d[2])), bp)
      [] t \in {TypeInt, TypeUint, TypeFloat} ->
           IF SLen(data) < 2
           THEN WithBP(DErr("bogo decode error: insufficient data for number size"), bp)
           ELSE IF SLen(data) < 2 + data.d[2]
           THEN WithBP(DErr("bogo decode error: insufficient data for number"), bp)
           ELSE LET body == Slice(data, 2, 2 + data.d[2]) IN
                WithBP(CASE t = TypeInt -> decodeInt(body.d)
                         [] t = TypeUint -> decodeUintValue(body.d)
                         [] OTHER -> decodeFloat(body), bp)
      [] t = TypeBlob -> WithBP(decodeBlob(SliceFrom(data, 1)), bp)
      [] t = TypeTimestamp -> WithBP(decodeTimestamp(SliceFrom(data, 1)), bp)
      [] t = TypeUntypedList -> WithBP(decodeArrayValue(SliceFrom(data, 1)), bp)
      [] t = TypeTypedList -> WithBP(decodeTypedList(SliceFrom(data, 1)), bp)
      [] t = TypeObject -> Decoder_decodeObjectSelective(d, SliceFrom(data, 1), bp)
      [] OTHER -> WithBP(DErr("bogo decode error: unsupported value type"), bp)

validString(d, result) ==
    IF result.st # "ok" THEN result
    ELSE IF d.ValidateUTF8 /\ ~isValidUTF8(result.v.b)
    THEN DErr("bogo decode error: invalid UTF-8 in string")
    ELSE result

\* d.depth is 0 and d.bytesProcessed is 0 when Decode calls decode
Decoder_decode(d, data) ==
    IF SLen(data) < 1 THEN WithBP(DErr("bogo decode error: insufficient data for type"), 0)
    ELSE IF d.MaxDepth > 0 /\ 0 > d.MaxDepth
    THEN WithBP(DErr("bogo decode error: maximum nesting depth exceeded"), 0)
    ELSE IF d.MaxObjectSize > 0 /\ 0 > d.MaxObjectSize
    THEN WithBP(DErr("bogo decode error: maximum object size exceeded"), 0)
    ELSE LET t == data.d[1]
             bp == SLen(data)
         IN
    CASE t = TypeNull -> WithBP(DOk(NilV), bp)
      [] t = TypeBoolTrue -> WithBP(DOk(BoolV(TRUE)), bp)
      [] t = TypeBoolFalse -> WithBP(DOk(BoolV(FALSE)), bp)
      [] t = TypeString ->
           IF SLen(data) < 2
           THEN WithBP(DErr("bogo decode error: insufficient data for string size"), bp)
           ELSE IF SLen(data) < 2 + data.d[2]
           THEN WithBP(DErr("bogo decode error: insufficient data for string size info"), bp)
           ELSE WithBP(validString(d, decodeString(SliceFrom(data, 2), data.d[2])), bp)
      [] t = TypeByte -> WithBP(Decoder_decodeByteSafe(d, SliceFrom(data, 1)), bp)
      [] t \in {TypeInt, TypeUint, TypeFloat} ->
           IF SLen(data) < 2
           THEN WithBP(DErr("bogo decode error: insufficient data for number size"), bp)
           ELSE IF SLen(data) < 2 + data.d[2]
           THEN WithBP(DErr("bogo decode error: insufficient data for number"), bp)
           ELSE LET body == Slice(data, 2, 2 + data.d[2]) IN
                WithBP(CASE t = TypeInt -> decodeInt(body.d)
                         [] t = TypeUint -> decodeUintValue(body.d)
                         [] OTHER -> decodeFloat(body), bp)
      [] t = TypeBlob -> WithBP(Decoder_decodeBlobSafe(d, SliceFrom(data, 1)), bp)
      [] t = TypeTimestamp -> WithBP(Decoder_decodeTimestampSafe(d, SliceFrom(data, 1)), bp)
      [] t = TypeUntypedList -> WithBP(Decoder_decodeArrayWithDepth(d, SliceFrom(data, 1)), bp)
      [] t = TypeTypedList -> WithBP(Decoder_decodeTypedArraySafe(d, SliceFrom(data, 1)), bp)
      [] t = TypeObject ->
           IF Len(d.SelectiveFields) > 0
           THEN Decoder_decodeObjectSelective(d, SliceFrom(data, 1), bp)
           ELSE WithBP(Decoder_decodeObjectWithDepth(d, SliceFrom(data, 1)), bp)
      [] OTHER ->
           IF d.AllowUnknownTypes THEN WithBP(DOk(UnknownV(t, data.d)), bp)
           ELSE WithBP(DErr("bogo decode error: unsupported type"), bp)

\* Decoder.Decode with the version check of the package-level Decode, which
\* no option relaxes
Decoder_DecodeAlwaysStrict(d, data) ==
    IF SLen(data) < 2
    THEN WithBP(DErr("bogo decode error: insufficient data, need at least 2 bytes for version and type"), 0)
    ELSE IF data.d[1] # Version
    THEN WithBP(DErr("bogo decode error: unsupported version"), 0)
    ELSE Decoder_decode(d, SliceFrom(data, 1))

Decoder_Decode(d, data) ==
    IF SLen(data) < 2
    THEN WithBP(DErr("bogo decode error: insufficient data, need at least 2 bytes for version and type"), 0)
    ELSE IF data.d[1] # Version /\ d.StrictMode
    THEN WithBP(DErr("bogo decode error: unsupported version"), 0)
    ELSE Decoder_decode(d, SliceFrom(data, 1))

(***************************************************************************)
(* d.depth through one call of Decoder.Decode (src/decoder.go).            *)
(***************************************************************************)
RECURSIVE Decoder_trackSelective(_, _, _), Decoder_trackLoop(_, _, _, _, _),
          Decoder_trackEntry(_, _, _, _, _, _), Decoder_trackValue(_, _, _)

\* decodeValueSelective: only a nested object touches d.depth
Decoder_trackValue(d, t, data) ==
    IF SLen(data) = 0 THEN t
    ELSE IF data.d[1] = TypeObject THEN Decoder_trackSelective(d, t, SliceFrom(data, 1))
    ELSE Outcome(t, Decoder_decodeValueSelective(d, data, 0).st)

Decoder_trackEntry(d, t, fieldsData, pos, keys, fr) ==
    IF fr.st # "ok" THEN Outcome(t, fr.st)
    ELSE IF SLen(fr.body) < 1 \/ SLen(fr.body) < 1 + fr.body.d[1] THEN Failed(t)
    ELSE IF Slice(fr.body, 1, 1 + fr.body.d[1]).d \in wantedFields(d)
    THEN Decoder_trackLoop(d, Decoder_trackValue(d, t, SliceFrom(fr.body, 1 + fr.body.d[1])),
                           fieldsData, pos + fr.end,
                           keys \cup {Slice(fr.body, 1, 1 + fr.body.d[1]).d})
    ELSE Decoder_trackLoop(d, t, fieldsData, pos + fr.end, keys)

\* for pos < len(fieldsData) && len(result) < len(d.SelectiveFields) { ... }
Decoder_trackLoop(d, t, fieldsData, pos, keys) ==
    IF t.st # "ok" \/ ~(pos < SLen(fieldsData) /\ Cardinality(keys) < Len(d.SelectiveFields))
    THEN t
    ELSE Decoder_trackEntry(d, t, fieldsData, pos, keys,
                            Frame(SliceFrom(fieldsData, pos), "", "", ""))

Decoder_trackFields(d, t, fr) ==
    IF fr.st # "ok" THEN Outcome(t, fr.st) ELSE Decoder_trackLoop(d, t, fr.body, 0, {})

\* decodeObjectSelective: d.depth++, the deferred d.depth--
Decoder_trackSelective(d, t, data) ==
    IF SLen(data) = 0 THEN Dec(Inc(t))
    ELSE Dec(Decoder_trackFields(d, Inc(t), Frame(data, "", "", "")))

\* Decoder.decode: decodeArrayWithDepth, decodeTypedArraySafe and
\* decodeObjectWithDepth each count the container they decode and leave
\* what is inside to the package-level decoder
Decoder_trackDecode(d, t, data) ==
    IF SLen(data) < 2 \/ (data.d[1] # Version /\ d.StrictMode)
    THEN Outcome(t, Decoder_Decode(d, data).st)
    ELSE IF data.d[2] = TypeObject /\ Len(d.SelectiveFields) > 0
    THEN Decoder_trackSelective(d, t, SliceFrom(data, 2))
    ELSE IF data.d[2] \in {TypeUntypedList, TypeTypedList, TypeObject}
    THEN Dec(Outcome(Inc(t), Decoder_Decode(d, data).st))
    ELSE Outcome(t, Decoder_Decode(d, data).st)

\* Decoder.Decode called while d.depth is depth
Decoder_trackDecodeCall(d, depth, data) == Decoder_trackDecode(d, Reset(depth), data)

(***************************************************************************)
(* StatsCollector (src/encoder.go) and DecoderStatsCollector               *)
(* (src/decoder.go): an Encoder or Decoder with counters beside it.  A Go  *)
(* map[Type]int is a function whose domain is the keys present.            *)
(***************************************************************************)
\* EncodingStats{TypesEncoded: make(map[Type]int)}
NoEncodingStats ==
    [BytesEncoded |-> 0, MaxDepthUsed |-> 0, TypesEncoded |-> <<>>, ErrorsCount |-> 0]

\* DecodingStats{TypesDecoded: make(map[Type]int)}
NoDecodingStats ==
    [BytesDecoded |-> 0, MaxDepthUsed |-> 0, TypesDecoded |-> <<>>, ErrorsCount |-> 0,
     UnknownTypes |-> 0]

\* m[k]++
CountUp(m, k) ==
    [x \in DOMAIN m \cup {k} |-> IF x = k THEN (IF k \in DOMAIN m THEN m[k] + 1 ELSE 1)
                                 ELSE m[x]]

NewStatsCollector(e) == [e |-> e, depth |-> 0, Stats |-> NoEncodingStats]
NewDecoderStatsCollector(d) ==
    [d |-> d, depth |-> 0, bytesProcessed |-> 0, Stats |-> NoDecodingStats]

\* the statistics after a call that returned data
encodedStats(stats, depth, data) ==
    [BytesEncoded |-> stats.BytesEncoded + Len(data),
     MaxDepthUsed |-> IF depth > stats.MaxDepthUsed THEN depth ELSE stats.MaxDepthUsed,
     TypesEncoded |-> IF Len(data) >= 2 THEN CountUp(stats.TypesEncoded, data[2])
                      ELSE stats.TypesEncoded,
     ErrorsCount |-> stats.ErrorsCount]

\* StatsCollector.Encode counting the bytes and the kind of failed calls too
StatsCollector_EncodeCountingAll(sc, r, t) ==
    [e |-> sc.e, depth |-> t.depth,
     Stats |-> IF r.st # "ok"
               THEN [encodedStats(sc.Stats, t.depth, <<Version, TypeNull>>)
                        EXCEPT !.ErrorsCount = @ + 1]
               ELSE encodedStats(sc.Stats, t.depth, r.b)]

\* StatsCollector.Encode sampling the greatest depth the call reached
StatsCollector_EncodeSamplingInside(sc, r, t) ==
    [e |-> sc.e, depth |-> t.depth,
     Stats |-> IF r.st # "ok" THEN [sc.Stats EXCEPT !.ErrorsCount = @ + 1]
               ELSE encodedStats(sc.Stats, t.high, r.b)]

\* StatsCollector.Encode: r is what sc.Encoder.Encode(v) returned and t how
\* it left sc.Encoder.depth
StatsCollector_Encode(sc, r, t) ==
    [e |-> sc.e, depth |-> t.depth,
     Stats |-> IF r.st # "ok" THEN [sc.Stats EXCEPT !.ErrorsCount = @ + 1]
               ELSE encodedStats(sc.Stats, t.depth, r.b)]

StatsCollector_ResetStats(sc) == [sc EXCEPT !.Stats = NoEncodingStats]

\* the statistics after a call that returned result for data
decodedStats(stats, depth, data, result) ==
    [BytesDecoded |-> stats.BytesDecoded + SLen(data),
     MaxDepthUsed |-> IF depth > stats.MaxDepthUsed THEN depth ELSE stats.MaxDepthUsed,
     TypesDecoded |-> IF SLen(data) >= 2 THEN CountUp(stats.TypesDecoded, data.d[2])
                      ELSE stats.TypesDecoded,
     ErrorsCount |-> stats.ErrorsCount,
     UnknownTypes |-> IF SLen(data) >= 2 /\ result.k = "UnknownType"
                      THEN stats.UnknownTypes + 1 ELSE stats.UnknownTypes]

\* DecoderStatsCollector.Decode: r is what dsc.Decoder.Decode(data) returned
\* and t how it left dsc.Decoder.depth.  A panic leaves the counters alone.
DecoderStatsCollector_Decode(dsc, data, r, t) ==
    [d |-> dsc.d, depth |-> t.depth, bytesProcessed |-> r.bp,
     Stats |-> IF r.st = "err" THEN [dsc.Stats EXCEPT !.ErrorsCount = @ + 1]
               ELSE IF r.st # "ok" THEN dsc.Stats
               ELSE decodedStats(dsc.Stats, t.depth, data, r.v)]

\* GetStats: a copy of the struct with a map of its own
StatsCollector_GetStats(sc) == [stats |-> sc.Stats, aliased |-> FALSE]
\* GetStats returning the struct as it is: the copy shares the map
StatsCollector_GetStatsShallow(sc) == [stats |-> sc.Stats, aliased |-> TRUE]

\* for the record of a call: the length of what it returned and its kind byte
encodedSize(r) == IF r.st = "ok" THEN Len(r.b) ELSE 0
encodedKind(r) == IF r.st = "ok" /\ Len(r.b) >= 2 THEN r.b[2] ELSE -1

(***************************************************************************)
(* The values the operations are applied to.                               *)
(***************************************************************************)
MaxStrLen == 2      \* longest string / blob drawn
MaxListLen == 2     \* longest list drawn
MaxFields == 2      \* most entries of an object drawn
MaxNest == 1        \* deepest nesting of objects inside objects

\* "a", "b", "c", ...: one key per possible entry
KeyOf(i) == <<96 + i>>
KeyPool == {KeyOf(i) : i \in 1..MaxFields}

SeqsUpTo(S, n) == UNION {[1..k -> S] : k \in 0..n}

Strings ==
    {[i \in 1..k |-> 97] : k \in 0..MaxStrLen}
        \cup {<<195, 169>>}                    \* U+00E9, two bytes

InvalidStrings == {<<255>>, <<195>>}           \* not UTF-8

Int64s ==
    {I64(n) : n \in {0, 1, -1, 47, 63, 64, -64, -65, 300, -8192}}
        \cup {MaxInt64, MinInt64}

Uint64s == {W64(n) : n \in {0, 47, 127, 128, 16384}} \cup {MaxUint64, MinInt64}

\* IEEE-754 bit patterns: 0.0, 1.0, -2.5, 0.1
Float64s ==
    {Zero64,
     WShl(W64(1023), 52),
     WOr(WShl(W64(2048 + 1024), 52), WShl(W64(1), 50)),
     [i \in 1..WordBits |->
        IF i <= 52 THEN (IF i = 2 \/ (i > 2 /\ i % 4 \in {0, 1}) THEN 1 ELSE 0)
        ELSE IF i \in {53, 54, 56, 57, 58, 59, 60, 61, 62} THEN 1 ELSE 0]}

\* the pattern with the given sign bit, 11-bit exponent field and set of
\* mantissa bits (1 is the lowest)
Float64Of(sign, exponent, mant) ==
    [i \in 1..WordBits |->
        IF i = WordBits THEN sign
        ELSE IF i >= 53 THEN (exponent \div Pow2(i - 53)) % 2
        ELSE IF i \in mant THEN 1 ELSE 0]

\* -0, both infinities, quiet and signalling NaNs with payloads, the
\* smallest and the largest subnormal, the largest finite number
SpecialFloat64s ==
    {Float64Of(1, 0, {}),
     Float64Of(0, 2047, {}), Float64Of(1, 2047, {}),
     Float64Of(0, 2047, {52}), Float64Of(1, 2047, {1}), Float64Of(0, 2047, {1, 30, 51}),
     Float64Of(1, 2047, 1..52),
     Float64Of(0, 0, {1}), Float64Of(1, 0, 1..52),
     Float64Of(0, 2046, 1..52)}

Blobs == {[i \in 1..k |-> i] : k \in 0..MaxStrLen}

Scalars ==
    {NilV, BoolV(TRUE), BoolV(FALSE)}
        \cup {NilOf(k) : k \in NilKinds}
        \cup {StrV(s) : s \in Strings}
        \cup {NumV("int64", w) : w \in Int64s}
        \cup {NumV(k, I64(-3)) : k \in SignedKinds}
        \cup {NumV("uint64", w) : w \in Uint64s}
        \cup {NumV(k, W64(200)) : k \in UnsignedKinds}
        \cup {NumV("float64", w) : w \in Float64s \cup SpecialFloat64s}
        \cup {NumV("float32", WShl(W64(1023), 52))}
        \cup {ByteV(x) : x \in {0, 7, 255}}
        \cup {BlobV(b) : b \in Blobs}
        \cup {TimeV(w) : w \in {Zero64, W64(86400000), I64(-1)}}

\* the values the object round trip is stated for
MemberPool ==
    {NilV, BoolV(TRUE), StrV(<<>>), StrV(<<97>>), NumV("int64", I64(-65)),
     ByteV(7), BlobV(<<1>>), BlobV(<<1, 2>>)}

\* statically typed lists, and []any
ListsOf(k, elems) == {ListV(k, l) : l \in SeqsUpTo(elems, MaxListLen)}

TypedLists ==
    ListsOf("[]string", {StrV(<<>>), StrV(<<97>>)})
        \cup ListsOf("[]int64", {NumV("int64", I64(-1)), NumV("int64", I64(64))})
        \cup ListsOf("[]int", {NumV("int", I64(300))})
        \cup ListsOf("[]uint64", {NumV("uint64", W64(128)), NumV("uint64", MaxUint64)})
        \cup ListsOf("[]bool", {BoolV(TRUE), BoolV(FALSE)})
        \cup ListsOf("[]float64", {NumV("float64", Zero64)})

ByteLists == {BlobV(b) : b \in SeqsUpTo({0, 9}, MaxListLen)}

UntypedLists ==
    ListsOf("[]any", {NilV, StrV(<<97>>), NumV("int64", I64(1))})
        \cup {ListV("[]any", <<ListV("[]string", <<StrV(<<97>>)>>)>>),
              ListV("[]any", <<NumV("float64", Zero64), BoolV(TRUE)>>)}

\* entry sequences with pairwise distinct keys, in every order of writing
EntrySeqs(vals, n) ==
    {es \in UNION {[1..k -> {Entry(key, v) : key \in KeyPool, v \in vals}] : k \in 0..n} :
        \A i, j \in DOMAIN es : i # j => es[i].key # es[j].key}

FlatObjects ==
    {ObjV(<<Entry(KeyOf(1), v)>>) : v \in MemberPool}
        \cup {ObjV(es) : es \in EntrySeqs({StrV(<<97>>), NumV("int64", I64(1))}, MaxFields)}

RECURSIVE NestedObjects(_)
NestedObjects(n) ==
    IF n = 0 THEN {ObjV(<<Entry(KeyOf(1), NumV("int64", I64(1))), Entry(KeyOf(2), BoolV(TRUE))>>),
                   ObjV(<<Entry(KeyOf(2), StrV(<<97>>))>>),
                   ObjV(<<>>)}
    ELSE LET inner == NestedObjects(n - 1) IN
         {ObjV(<<Entry(KeyOf(1), o)>>) : o \in inner}
             \cup {ObjV(<<Entry(KeyOf(2), NilV), Entry(KeyOf(1), o)>>) : o \in inner}

ListObjects ==
    {ObjV(<<Entry(KeyOf(1), l), Entry(KeyOf(2), NumV("int64", I64(1)))>>) :
        l \in {ListV("[]any", <<NilV, StrV(<<97>>)>>), ListV("[]string", <<StrV(<<97>>)>>),
               ListV("[]int64", <<NumV("int64", I64(64))>>)}}

Objects == FlatObjects \cup UNION {NestedObjects(n) : n \in 1..MaxNest} \cup ListObjects

Structs == {StructV(<<Entry(KeyOf(1), StrV(<<97>>)), Entry(KeyOf(2), NumV("int", I64(-3)))>>)}

\* keys of the greatest length the key-length byte can hold, and one longer
FullKey == [i \in 1..MaxKeyLen |-> 97]
LongKey == [i \in 1..(MaxKeyLen + 1) |-> 97]

LongKeyObjects ==
    {ObjV(<<Entry(FullKey, NilV)>>),
     ObjV(<<Entry(LongKey, NilV)>>),
     ObjV(<<Entry(LongKey, StrV(<<255>>))>>),
     ObjV(<<Entry(KeyOf(1), ObjV(<<Entry(LongKey, BoolV(TRUE))>>))>>),
     ObjV(<<Entry(KeyOf(1), ListV("[]any", <<ObjV(<<Entry(LongKey, NilV)>>)>>))>>),
     StructV(<<Entry(LongKey, NilV)>>)}

\* the key "a.b", beside an object "a" with a member "b"
DottedKey == <<97, 46, 98>>
DottedObjects ==
    {ObjV(<<Entry(KeyOf(1), ObjV(<<Entry(KeyOf(2), BoolV(TRUE))>>)),
            Entry(DottedKey, NumV("int64", I64(1)))>>),
     ObjV(<<Entry(DottedKey, ObjV(<<Entry(KeyOf(1), NilV), Entry(DottedKey, BoolV(TRUE))>>)),
            Entry(KeyOf(1), ObjV(<<Entry(KeyOf(2), BoolV(TRUE))>>))>>)}

Values ==
    Scalars \cup {StrV(s) : s \in InvalidStrings} \cup TypedLists \cup ByteLists
        \cup UntypedLists \cup Objects \cup Structs \cup LongKeyObjects \cup DottedObjects

\* payloads that hold the byte 0xFF, which no UTF-8 text contains, as a
\* string or as a key
InvalidUTF8Inputs ==
    {<<0, 3, 1, 1, 255>>,                               \* "\xff"
     <<0, 12, 1, 8, 1, 6, 1, 97, 3, 1, 1, 255>>,        \* {"a": "\xff"}
     <<0, 12, 1, 5, 1, 3, 1, 255, 0>>}                  \* {"\xff": nil}

\* object payloads that repeat a key
DuplicateKeyInputs ==
    {<<0, 12, 1, 10, 1, 3, 1, 97, 1, 1, 3, 1, 97, 2>>,     \* {"a": true, "a": false}
     <<0, 12, 1, 15, 1, 3, 1, 97, 1, 1, 3, 1, 98, 0,       \* {"a": true, "b": nil,
       1, 3, 1, 97, 2>>}                                   \*  "a": false}

\* object payloads of which full decoding rejects every entry but "a": true
SkippedEntryInputs ==
    {<<0, 12, 1, 11, 1, 4, 1, 98, 13, 9, 1, 3, 1, 97, 1>>,  \* {"b": <kind 13>, "a": true}
     <<0, 12, 1, 11, 1, 3, 1, 97, 1, 1, 4, 1, 98, 13, 9>>,  \* {"a": true, "b": <kind 13>}
     <<0, 12, 1, 8, 1, 3, 1, 97, 1, 1, 9, 1>>}              \* {"a": true, <an entry of 9
                                                            \*  with 1 byte left>}

\* object payloads, from the kind byte on, whose declared sizes do not fit
MalformedObjects ==
    {<<12, 1, 6, 1, 3, 1, 97, 1>>,            \* frame of 6, 5 bytes remain
     <<12, 1, 5, 1, 4, 1, 97, 1>>,            \* entry of 4, 3 bytes remain in the frame
     <<12, 1, 5, 1, 3, 5, 97, 1>>,            \* key of 5 in an entry of 3
     <<12, 1, 6, 1, 4, 1, 97, 1, 99>>,        \* "a": true and one byte more in the entry
     <<12, 1, 11, 1, 4, 1, 97, 5, 1,          \* "a": an int of 1 byte that the entry
       1, 3, 1, 98, 0>>,                      \*  ends before; "b": nil
     <<12, 1, 6, 1, 4, 1, 97, 5, 1>>}         \* the same as the only entry

\* byte strings that no encoder call produced: short inputs, and frames
\* around a kind byte (13, 200) outside the table
CraftedInputs ==
    {<<>>, <<0>>, <<1>>, <<0, 13>>,
     <<0, 13, 1, 2>>,                          \* unknown kind at the top level
     <<0, 200, 5>>,
     <<1, 13, 1, 2>>,                          \* the same behind version 1
     <<0, 12, 1, 6, 1, 4, 1, 97, 13, 9>>,      \* {"a": <kind 13>}
     <<0, 12, 1, 7, 1, 5, 1, 97, 200, 9, 9>>,  \* {"a": <kind 200>}
     <<0, 10, 1, 2, 13, 9>>,                   \* [<kind 13>]
     <<0, 11, 1, 4, 13, 1, 1, 5>>,             \* typed list of element kind 13
     <<0, 7, 3, 0, 0, 0>>,                     \* float 0.0, L = the 3 bytes present
     <<0, 7, 3, 0, 0>>}                        \* float, L = 3 but 2 bytes present
        \cup DuplicateKeyInputs \cup InvalidUTF8Inputs \cup SkippedEntryInputs

EncoderConfigs ==
    {[DefaultEncoder EXCEPT !.CompactLists = c, !.StrictMode = s] : c, s \in BOOLEAN}
        \cup {[DefaultEncoder EXCEPT !.MaxDepth = k] : k \in {0, 1, 2}}

\* SelectiveFields lists over the key pool, one per non-empty set of keys
FieldLists ==
    {fs \in SeqsUpTo(KeyPool, MaxFields) :
        fs # <<>> /\ \A i, j \in DOMAIN fs : i < j => fs[i][1] < fs[j][1]}

DecoderConfigs ==
    {[DefaultDecoder EXCEPT !.StrictMode = s, !.AllowUnknownTypes = a] : s, a \in BOOLEAN}
        \cup {[DefaultDecoder EXCEPT !.SelectiveFields = f] : f \in FieldLists}
        \cup {[DefaultDecoder EXCEPT !.SelectiveFields = <<KeyOf(1), KeyOf(1)>>]}
        \cup {[DefaultDecoder EXCEPT !.SelectiveFields = <<DottedKey>>]}
        \cup {[DefaultDecoder EXCEPT !.MaxDepth = 1, !.SelectiveFields = f] :
                 f \in {<<>>, <<KeyOf(1)>>}}
        \cup {[DefaultDecoder EXCEPT !.MaxObjectSize = 1, !.SelectiveFields = f] :
                 f \in {<<>>, <<KeyOf(1)>>}}

(***************************************************************************)
(* The state: the Go value in hand, the byte slice in hand and how it was  *)
(* obtained, the options of the encoder and of the decoder that ran last   *)
(* (the decoder with its counters), and what the last operation returned.  *)
(***************************************************************************)
VARIABLES val, wire, prov, op, enc, opts, res, depth, bytesProcessed, shared

codec == <<val, wire, prov, op, enc, opts, res, depth, bytesProcessed, shared>>

\* A StatsCollector sc and a DecoderStatsCollector dsc used call after call,
\* the copy of the statistics a GetStats call handed out, and for the
\* record: the calls made since each collector was last reset, and the
\* last call.
VARIABLES sc, dsc, snapshot, calls, lastCall

collectors == <<sc, dsc, snapshot, calls, lastCall>>

\* The package's default encoder, and the goroutines that are inside a
\* Marshal call on it, each with its position in the call.
VARIABLES defaultEncoder, goroutine

marshalling == <<defaultEncoder, goroutine>>

\* A bytes.Buffer that a StreamEncoder writes to and a StreamDecoder reads
\* from: the bytes not read yet, and for the record the values written, how
\* many of them are unread, and what each Decode call returned.
VARIABLES stream

streaming == <<stream>>

others == <<collectors, marshalling, streaming>>

vars == <<codec, others>>

Res(st, v, err, n) == [st |-> st, v |-> v, err |-> err, n |-> n]
NoRes == Res("none", NilV, "", 0)
OfEnc(r) == Res(r.st, NilV, r.err, IF r.st = "ok" THEN Len(r.b) ELSE 0)
OfDec(r) == Res(r.st, r.v, r.err, 0)
OfSize(r) == Res(r.st, NilV, r.err, r.n)

\* The bytes a decoder returns as a blob or a byte list are a reslice of its
\* argument.  shared says where: the returned byte j is byte off + j of the
\* slice in hand.
Owned == [on |-> FALSE, off |-> 0]
View(off) == [on |-> TRUE, off |-> off]

\* decodeBlob: return data[dataStart:dataEnd], dataStart := 1 + sizeLen
blobStorage(data) == 1 + data.d[1]

\* decodeTypedList: return elementsData, which is
\* data[dataStart:dataEnd][1:][1+countLen:]
byteListStorage(data) == (1 + data.d[1]) + 1 + (1 + data.d[1 + data.d[1] + 2])

\* the storage of the result r of decoding data, which starts skipped bytes
\* into the slice in hand at its kind byte
Storage(r, skipped, data) ==
    IF r.st # "ok" \/ r.v.k # "[]uint8" \/ SLen(data) < 2 THEN Owned
    ELSE IF data.d[1] = TypeBlob THEN View(skipped + 1 + blobStorage(SliceFrom(data, 1)))
    ELSE IF data.d[1] = TypeTypedList
    THEN View(skipped + 1 + byteListStorage(SliceFrom(data, 1)))
    ELSE Owned

\* what a GetStats call handed out: stats is what the caller holds, taken
\* what the statistics were when it was handed out; a copy that shared the
\* map of the collector would follow the collector
NoSnapshot == [of |-> "none", stats |-> NoEncodingStats, taken |-> NoEncodingStats,
               aliased |-> FALSE]
NoCalls == [sc |-> <<>>, dsc |-> <<>>, total |-> 0]
NoCall == [who |-> "none", st |-> "none", track |-> Reset(0), before |-> NoEncodingStats]

CollectorsIdle ==
    /\ sc = NewStatsCollector(DefaultEncoder)
    /\ dsc = NewDecoderStatsCollector(DefaultDecoder)
    /\ snapshot = NoSnapshot
    /\ calls = NoCalls
    /\ lastCall = NoCall

Goroutines == {1, 2}

\* one object inside the other, n of them, around nil
RECURSIVE Chain(_)
Chain(n) == IF n = 0 THEN NilV ELSE ObjV(<<Entry(KeyOf(1), Chain(n - 1))>>)

\* a goroutine about to call Marshal(v): cur is the value its innermost
\* e.encode is at, level the number of encodeObjectWithDepth frames it is
\* inside, reg the value of e.depth it read last, st what the call returns
Calling(v) == [pc |-> "call", v |-> v, cur |-> v, level |-> 0, reg |-> 0, st |-> "ok"]

MarshallingIdle ==
    /\ defaultEncoder = [e |-> DefaultEncoder, depth |-> 0]
    /\ goroutine = [g \in Goroutines |-> [Calling(NilV) EXCEPT !.pc = "idle"]]

NoStream == [buf |-> <<>>, written |-> <<>>, unread |-> 0, decoded |-> <<>>]

StreamingIdle == stream = NoStream

OthersIdle == CollectorsIdle /\ MarshallingIdle /\ StreamingIdle

Init ==
    /\ \/ val \in Values /\ wire = Sl(<<>>) /\ prov = "none"
       \/ val = NilV /\ wire \in {Sl(b) : b \in CraftedInputs} /\ prov = "crafted"
       \/ val = NilV /\ wire \in {Sl(b) : b \in MalformedObjects} /\ prov = "malformed"
    /\ op = "init"
    /\ enc = DefaultEncoder
    /\ opts = DefaultDecoder
    /\ res = NoRes
    /\ depth = 0
    /\ bytesProcessed = 0
    /\ shared = Owned
    /\ OthersIdle

\* an encoder call: its bytes become the slice in hand
Encoded(name, r) ==
    /\ wire' = IF r.st = "ok" THEN Sl(r.b) ELSE Sl(<<>>)
    /\ prov' = IF r.st = "ok" THEN name ELSE "rejected"
    /\ op' = name
    /\ res' = OfEnc(r)
    /\ UNCHANGED <<val, opts, depth, bytesProcessed, shared, others>>

EncoderEncode(e) ==
    prov = "none" /\ Encoded("Encode", Encoder_Encode(e, val)) /\ enc' = e

EncodeObject ==
    /\ prov = "none" /\ val.k \in {"map[string]any", "struct", "string"}
    /\ Encoded("encodeObject", encodeObject(val)) /\ UNCHANGED enc

EncodeTypedList ==
    /\ prov = "none" /\ val.k \in SliceKinds \cup {"[]uint8", "string"}
    /\ Encoded("encodeTypedList", encodeTypedList(val)) /\ UNCHANGED enc

EncodeInt ==
    /\ prov = "none" /\ val.k = "int64"
    /\ Encoded("encodeInt", EOk(encodeInt(val.w))) /\ UNCHANGED enc

EncodeUint ==
    /\ prov = "none" /\ val.k = "uint64"
    /\ Encoded("encodeUint", EOk(encodeUint(val.w))) /\ UNCHANGED enc

EncodeFloat ==
    /\ prov = "none" /\ val.k = "float64"
    /\ Encoded("encodeFloat", EOk(encodeFloat(val.w))) /\ UNCHANGED enc

\* the last byte removed, by reslicing (the byte stays within the
\* capacity) or by copying into a buffer of the shorter length
Truncate(copied) ==
    /\ op = "Encode" /\ prov = "Encode" /\ SLen(wire) > 2
    /\ wire' = IF copied THEN Sl(SubSeq(wire.d, 1, SLen(wire) - 1))
               ELSE SliceTo(wire, SLen(wire) - 1)
    /\ prov' = "truncated"
    /\ op' = "truncate"
    /\ UNCHANGED <<val, enc, opts, res, depth, bytesProcessed, shared, others>>

\* the version byte overwritten
SetVersion(b) ==
    /\ op = "Encode" /\ prov = "Encode"
    /\ wire' = [wire EXCEPT !.d[1] = b]
    /\ prov' = "reversioned"
    /\ op' = "setVersion"
    /\ UNCHANGED <<val, enc, opts, res, depth, bytesProcessed, shared, others>>

\* Every decoder call starts from the bytes alone (Decoder.Decode resets its
\* counters), so each input in hand is decoded once.
Decodable ==
    /\ prov \in {"Encode", "truncated", "reversioned", "crafted"}
    /\ op \in {"init", "Encode", "truncate", "setVersion"}

\* the call's result, and d.bytesProcessed as the call leaves it
Returned(r) == res' = OfDec(r) /\ bytesProcessed' = r.bp

DecoderDecode(d) ==
    /\ Decodable
    /\ Len(d.SelectiveFields) > 0 =>
          \/ val.k = "map[string]any" /\ prov = "Encode"
          \/ prov = "crafted" /\ wire.d \in DuplicateKeyInputs \cup SkippedEntryInputs
    /\ Returned(Decoder_Decode(d, wire))
    /\ depth' = 0
    /\ opts' = d
    /\ op' = "Decoder.Decode"
    /\ shared' = Storage(res', 1, SliceFrom(wire, 1))
    /\ UNCHANGED <<val, wire, prov, enc, others>>

PkgDecode ==
    /\ Decodable
    /\ res' = OfDec(Decode(wire))
    /\ op' = "Decode"
    /\ shared' = Storage(res', 1, SliceFrom(wire, 1))
    /\ UNCHANGED <<val, wire, prov, enc, opts, depth, bytesProcessed, others>>

DecodeObject ==
    /\ \/ op = "encodeObject" /\ prov = "encodeObject"
       \/ op = "init" /\ prov = "malformed"
    /\ res' = OfDec(decodeObject(SliceFrom(wire, 1)))
    /\ op' = "decodeObject"
    /\ UNCHANGED <<val, wire, prov, enc, opts, depth, bytesProcessed, shared, others>>

DecodeTypedList ==
    /\ op = "encodeTypedList" /\ prov = "encodeTypedList"
    /\ res' = OfDec(decodeTypedList(SliceFrom(wire, 1)))
    /\ op' = "decodeTypedList"
    /\ shared' = Storage(res', 0, wire)
    /\ UNCHANGED <<val, wire, prov, enc, opts, depth, bytesProcessed, others>>

DecodeInt ==
    /\ op = "encodeInt" /\ prov = "encodeInt"
    /\ res' = OfDec(decodeInt(SliceFrom(wire, 2).d))
    /\ op' = "decodeInt"
    /\ UNCHANGED <<val, wire, prov, enc, opts, depth, bytesProcessed, shared, others>>

DecodeUint ==
    /\ op = "encodeUint" /\ prov = "encodeUint"
    /\ res' = OfDec(decodeUintValue(SliceFrom(wire, 2).d))
    /\ op' = "decodeUint"
    /\ UNCHANGED <<val, wire, prov, enc, opts, depth, bytesProcessed, shared, others>>

\* decodeFloat on the bytes behind the kind byte and the length byte
DecodeFloat ==
    /\ op = "encodeFloat" /\ prov = "encodeFloat"
    /\ res' = OfDec(decodeFloat(SliceFrom(wire, 2)))
    /\ op' = "decodeFloat"
    /\ UNCHANGED <<val, wire, prov, enc, opts, depth, bytesProcessed, shared, others>>

GetElementSize ==
    /\ op = "Encode" /\ prov = "Encode"
    /\ res' = OfSize(getElementSize(SliceFrom(wire, 1)))
    /\ op' = "getElementSize"
    /\ UNCHANGED <<val, wire, prov, enc, opts, depth, bytesProcessed, shared, others>>

\* how a buffer that was written to after the call was obtained before
Overwritten(p) ==
    CASE p \in {"Encode", "Encode, overwritten"} -> "Encode, overwritten"
      [] p \in {"encodeTypedList", "encodeTypedList, overwritten"} ->
             "encodeTypedList, overwritten"
      [] OTHER -> "overwritten"

\* the caller writes b into byte i of the buffer it passed to the decoder
OverwriteInput(i, b) ==
    /\ op \in {"Decoder.Decode", "Decode", "decodeTypedList"}
    /\ res.st = "ok" /\ res.v.k = "[]uint8"
    /\ i \in 1..SLen(wire) /\ wire.d[i] # b
    /\ wire' = [wire EXCEPT !.d[i] = b]
    /\ res' = IF shared.on /\ (i - shared.off) \in 1..Len(res.v.b)
              THEN [res EXCEPT !.v.b[i - shared.off] = b] ELSE res
    /\ prov' = Overwritten(prov)
    /\ op' = "overwriteInput"
    /\ UNCHANGED <<val, enc, opts, depth, bytesProcessed, shared, others>>

\* the caller writes b into byte j of the bytes the decoder returned
OverwriteResult(j, b) ==
    /\ op \in {"Decoder.Decode", "Decode", "decodeTypedList"}
    /\ res.st = "ok" /\ res.v.k = "[]uint8"
    /\ j \in 1..Len(res.v.b) /\ res.v.b[j] # b
    /\ res' = [res EXCEPT !.v.b[j] = b]
    /\ wire' = IF shared.on THEN [wire EXCEPT !.d[shared.off + j] = b] ELSE wire
    /\ prov' = IF shared.on THEN Overwritten(prov) ELSE prov
    /\ op' = "overwriteResult"
    /\ UNCHANGED <<val, enc, opts, depth, bytesProcessed, shared, others>>

Next ==
    \/ \E e \in EncoderConfigs : EncoderEncode(e)
    \/ EncodeObject
    \/ EncodeTypedList
    \/ EncodeInt
    \/ EncodeUint
    \/ EncodeFloat
    \/ \E copied \in BOOLEAN : Truncate(copied)
    \/ \E b \in {1, 255} : SetVersion(b)
    \/ \E d \in DecoderConfigs : DecoderDecode(d)
    \/ PkgDecode
    \/ DecodeObject
    \/ DecodeTypedList
    \/ DecodeInt
    \/ DecodeUint
    \/ DecodeFloat
    \/ GetElementSize
    \/ \E i \in 1..(MaxStrLen + 6) : OverwriteInput(i, 170)
    \/ \E j \in 1..MaxStrLen : OverwriteResult(j, 170)

Spec == Init /\ [][Next]_vars

(***************************************************************************)
(* One StatsCollector and one DecoderStatsCollector, each used call after  *)
(* call.  Every action is one whole call.                                  *)
(***************************************************************************)
MaxCalls == 3

InnerObject == ObjV(<<Entry(KeyOf(2), StrV(<<97>>))>>)
NestedObject == ObjV(<<Entry(KeyOf(1), InnerObject)>>)
DeepObject == ObjV(<<Entry(KeyOf(1), NestedObject)>>)

\* the values handed to StatsCollector.Encode: a string, a list, objects two
\* and three levels deep, and an object whose inner object has a key too long
StatsValues ==
    {StrV(<<97>>), ListV("[]string", <<StrV(<<97>>)>>), NestedObject, DeepObject,
     ObjV(<<Entry(KeyOf(1), ObjV(<<Entry(LongKey, NilV)>>))>>)}

\* the payloads handed to DecoderStatsCollector.Decode: two encoded values,
\* an unknown kind, and an object whose member is of an unknown kind
StatsPayloads ==
    {Encode(StrV(<<97>>)).b, Encode(DeepObject).b,
     <<0, 13, 1, 2>>, <<0, 12, 1, 6, 1, 4, 1, 97, 13, 9>>}

StatsEncoders == {DefaultEncoder, [DefaultEncoder EXCEPT !.MaxDepth = 2]}

StatsDecoders ==
    {[DefaultDecoder EXCEPT !.AllowUnknownTypes = TRUE],
     [DefaultDecoder EXCEPT !.SelectiveFields = <<KeyOf(1)>>]}

\* no value and no bytes in hand
CodecIdle ==
    /\ val = NilV /\ wire = Sl(<<>>) /\ prov = "none" /\ op = "init"
    /\ enc = DefaultEncoder /\ opts = DefaultDecoder /\ res = NoRes
    /\ depth = 0 /\ bytesProcessed = 0 /\ shared = Owned

StatsInit ==
    /\ CodecIdle
    /\ sc \in {NewStatsCollector(e) : e \in StatsEncoders}
    /\ dsc \in {NewDecoderStatsCollector(d) : d \in StatsDecoders}
    /\ snapshot = NoSnapshot
    /\ calls = NoCalls
    /\ lastCall = NoCall
    /\ MarshallingIdle
    /\ StreamingIdle

Called(who, r, t, before, size, kind) ==
    /\ calls' = [calls EXCEPT ![who] = Append(@, [st |-> r.st, n |-> size, kind |-> kind]),
                              !.total = @ + 1]
    /\ lastCall' = [who |-> who, st |-> r.st, track |-> t, before |-> before]

\* a copy that shares the collector's map sees what the collector counts
Followed(types) ==
    snapshot' = IF snapshot.aliased THEN [snapshot EXCEPT !.stats.TypesEncoded = types]
                ELSE snapshot

\* sc.Encoder.Encode(v) returned r and left sc.Encoder.depth as t says
StatsEncoded(r, t) ==
    /\ sc' = StatsCollector_Encode(sc, r, t)
    /\ Called("sc", r, t, sc.Stats, encodedSize(r), encodedKind(r))
    /\ Followed(sc'.Stats.TypesEncoded)
    /\ UNCHANGED <<codec, marshalling, streaming, dsc>>

StatsEncode(v) ==
    /\ calls.total < MaxCalls
    /\ \E r \in {Encoder_Encode(sc.e, v)} :
       \E t \in {Encoder_trackEncodeCall(sc.e, sc.depth, v)} : StatsEncoded(r, t)

\* dsc.Decoder.Decode(data) returned r and left dsc.Decoder.depth as t says
StatsDecoded(data, r, t) ==
    /\ dsc' = DecoderStatsCollector_Decode(dsc, data, r, t)
    /\ Called("dsc", r, t, dsc.Stats, SLen(data), IF SLen(data) >= 2 THEN data.d[2] ELSE -1)
    /\ UNCHANGED <<codec, marshalling, streaming, sc, snapshot>>

StatsDecode(data) ==
    /\ calls.total < MaxCalls
    /\ \E r \in {Decoder_Decode(dsc.d, data)} :
       \E t \in {Decoder_trackDecodeCall(dsc.d, dsc.depth, data)} : StatsDecoded(data, r, t)

StatsGetStats ==
    /\ calls.total < MaxCalls
    /\ snapshot' = [of |-> "sc", stats |-> StatsCollector_GetStats(sc).stats,
                    taken |-> sc.Stats, aliased |-> StatsCollector_GetStats(sc).aliased]
    /\ calls' = [calls EXCEPT !.total = @ + 1]
    /\ lastCall' = [who |-> "sc.GetStats", st |-> "ok", track |-> Reset(sc.depth),
                    before |-> sc.Stats]
    /\ UNCHANGED <<codec, marshalling, streaming, sc, dsc>>

\* the map of a fresh EncodingStats is a new one: an earlier copy no longer
\* shares it
StatsResetStats ==
    /\ calls.total < MaxCalls
    /\ sc' = StatsCollector_ResetStats(sc)
    /\ calls' = [calls EXCEPT !.sc = <<>>, !.total = @ + 1]
    /\ lastCall' = [who |-> "sc.ResetStats", st |-> "ok", track |-> Reset(sc.depth),
                    before |-> sc.Stats]
    /\ snapshot' = [snapshot EXCEPT !.aliased = FALSE]
    /\ UNCHANGED <<codec, marshalling, streaming, dsc>>

StatsNext ==
    \/ \E v \in StatsValues : StatsEncode(v)
    \/ \E b \in StatsPayloads : StatsDecode(Sl(b))
    \/ StatsGetStats
    \/ StatsResetStats

StatsSpec == StatsInit /\ [][StatsNext]_vars

(***************************************************************************)
(* Marshal from two goroutines (src/bogo.go): both calls run                *)
(* defaultEncoder.Encode on the one package-level Encoder, and nothing     *)
(* orders their reads and writes of its depth field.  Every action is one  *)
(* read or one write of e.depth with the branch it decides; e.depth++ and  *)
(* e.depth-- are a read and a write.                                       *)
(***************************************************************************)
MaxMarshalNest == 3

\* SetDefaultEncoder(NewConfigurableEncoder(WithMaxDepth(k)))
DefaultEncoders == {[e |-> [DefaultEncoder EXCEPT !.MaxDepth = k], depth |-> 0] : k \in {2, DefaultMaxDepth}}

MarshalInit ==
    /\ CodecIdle
    /\ CollectorsIdle
    /\ defaultEncoder \in DefaultEncoders
    /\ goroutine \in [Goroutines -> {Calling(Chain(n)) : n \in 1..MaxMarshalNest}]
    /\ StreamingIdle

At(g, pc) == goroutine[g].pc = pc
Goes(g, next) == goroutine' = [goroutine EXCEPT ![g] = next]

\* Encoder.Encode: e.depth = 0
MarshalEncode(g) ==
    /\ At(g, "call")
    /\ defaultEncoder' = [defaultEncoder EXCEPT !.depth = 0]
    /\ Goes(g, [goroutine[g] EXCEPT !.pc = "encode"])
    /\ UNCHANGED <<codec, collectors, streaming>>

\* Encoder.encode: if e.MaxDepth > 0 && e.depth > e.MaxDepth, then the
\* dispatch on the value: an object goes to encodeObjectWithDepth, nil is
\* encoded
MarshalEncodeValue(g) ==
    /\ At(g, "encode")
    /\ Goes(g, IF defaultEncoder.e.MaxDepth > 0 /\ defaultEncoder.depth > defaultEncoder.e.MaxDepth
               THEN [goroutine[g] EXCEPT !.pc = "return", !.st = "err"]
               ELSE IF goroutine[g].cur.k = "map[string]any"
               THEN [goroutine[g] EXCEPT !.pc = "object"]
               ELSE [goroutine[g] EXCEPT !.pc = "return"])
    /\ UNCHANGED <<codec, collectors, streaming, defaultEncoder>>

\* encodeObjectWithDepth: if e.MaxDepth > 0 && e.depth >= e.MaxDepth
MarshalObjectCheck(g) ==
    /\ At(g, "object")
    /\ Goes(g, IF defaultEncoder.e.MaxDepth > 0 /\ defaultEncoder.depth >= defaultEncoder.e.MaxDepth
               THEN [goroutine[g] EXCEPT !.pc = "return", !.st = "err"]
               ELSE [goroutine[g] EXCEPT !.pc = "inc"])
    /\ UNCHANGED <<codec, collectors, streaming, defaultEncoder>>

\* e.depth++, the read
MarshalIncRead(g) ==
    /\ At(g, "inc")
    /\ Goes(g, [goroutine[g] EXCEPT !.pc = "incWrite", !.reg = defaultEncoder.depth])
    /\ UNCHANGED <<codec, collectors, streaming, defaultEncoder>>

\* e.depth++, the write; then the deferred decrement is in place and the
\* member is handed to e.encode
MarshalIncWrite(g) ==
    /\ At(g, "incWrite")
    /\ defaultEncoder' = [defaultEncoder EXCEPT !.depth = goroutine[g].reg + 1]
    /\ Goes(g, [goroutine[g] EXCEPT !.pc = "encode", !.level = @ + 1,
                                    !.cur = goroutine[g].cur.l[1].val])
    /\ UNCHANGED <<codec, collectors, streaming>>

\* a return, with bytes or with an error: out of Encode, or out of an
\* encodeObjectWithDepth whose deferred e.depth-- runs, the read
MarshalReturn(g) ==
    /\ At(g, "return")
    /\ Goes(g, IF goroutine[g].level = 0 THEN [goroutine[g] EXCEPT !.pc = "done"]
               ELSE [goroutine[g] EXCEPT !.pc = "decWrite", !.reg = defaultEncoder.depth])
    /\ UNCHANGED <<codec, collectors, streaming, defaultEncoder>>

\* e.depth--, the write
MarshalDecWrite(g) ==
    /\ At(g, "decWrite")
    /\ defaultEncoder' = [defaultEncoder EXCEPT !.depth = goroutine[g].reg - 1]
    /\ Goes(g, [goroutine[g] EXCEPT !.pc = "return", !.level = @ - 1])
    /\ UNCHANGED <<codec, collectors, streaming>>

MarshalNext ==
    \E g \in Goroutines :
        \/ MarshalEncode(g)
        \/ MarshalEncodeValue(g)
        \/ MarshalObjectCheck(g)
        \/ MarshalIncRead(g)
        \/ MarshalIncWrite(g)
        \/ MarshalReturn(g)
        \/ MarshalDecWrite(g)

MarshalSpec == MarshalInit /\ [][MarshalNext]_vars

(***************************************************************************)
(* StreamEncoder and StreamDecoder (src/unnamed/part_010) on one           *)
(* bytes.Buffer: Encode appends the encoding of a value, Decode hands      *)
(* everything io.ReadAll gets from the reader to Decoder.Decode.           *)
(***************************************************************************)
MaxStreamWrites == 2
MaxStreamReads == 2

StreamValues ==
    {NilV, BoolV(TRUE), StrV(<<97>>), StrV(<<>>), NumV("int64", I64(1)), ByteV(7),
     NumV("float64", WShl(W64(1023), 52)), BlobV(<<1, 2>>),
     ListV("[]string", <<StrV(<<97>>)>>), ListV("[]any", <<NilV, StrV(<<97>>)>>),
     InnerObject, StrV(<<255>>)}

StreamInit ==
    /\ CodecIdle
    /\ CollectorsIdle
    /\ MarshallingIdle
    /\ stream = NoStream

\* StreamEncoder.Encode: the bytes of v are written, or the error comes
\* back and nothing is written
StreamEncoder_Encode(v) ==
    /\ Len(stream.written) < MaxStreamWrites
    /\ stream' = IF Encode(v).st = "ok"
                 THEN [stream EXCEPT !.buf = @ \o Encode(v).b, !.written = Append(@, v),
                                     !.unread = @ + 1]
                 ELSE stream
    /\ UNCHANGED <<codec, collectors, marshalling>>

\* StreamDecoder.Decode: Decoder.DecodeFrom reads the reader to its end
StreamDecoder_Decode ==
    /\ Len(stream.decoded) < MaxStreamReads
    /\ stream' = [stream EXCEPT
                     !.buf = <<>>, !.unread = 0,
                     !.decoded = Append(@, [res |-> OfDec(Decoder_Decode(DefaultDecoder, Sl(stream.buf))),
                                            first |-> Len(stream.written) - stream.unread + 1,
                                            unread |-> stream.unread])]
    /\ UNCHANGED <<codec, collectors, marshalling>>

StreamNext ==
    \/ \E v \in StreamValues : StreamEncoder_Encode(v)
    \/ StreamDecoder_Decode

StreamSpec == StreamInit /\ [][StreamNext]_vars

(***************************************************************************)
(* What the format says of integers, written independently of the          *)
(* encoders: zig-zag folding and little-endian base-128 groups.            *)
(***************************************************************************)
\* (n << 1) XOR (n >> 63), the shift right being arithmetic
ZigZag(n) == WXor(WShl(n, 1), WSar63(n))

\* the position of the highest set bit, 0 for the zero word
BitLen(u) == IF u = Zero64 THEN 0 ELSE CHOOSE i \in 1..WordBits : u[i] = 1 /\ \A j \in (i + 1)..WordBits : u[j] = 0

\* the number of 7-bit groups needed, at least one
Groups(u) == IF BitLen(u) = 0 THEN 1 ELSE (BitLen(u) + 6) \div 7

\* low group first, the high bit of a byte set on every group but the last
Base128(u) ==
    [i \in 1..Groups(u) |->
        WField(u, 7 * (i - 1) + 1, IF 7 * i > WordBits THEN WordBits ELSE 7 * i)
            + (IF i < Groups(u) THEN 128 ELSE 0)]

\* a byte count L followed by the L bytes of a base-128 number
LP(u) == <<Len(Base128(u))>> \o Base128(u)

TypedElementKinds == {{"string"}, SignedKinds, UnsignedKinds, {"uint8"}, {"bool"}}

\* a non-empty list whose elements all fall in one of those kinds
Homogeneous(l) ==
    l # <<>> /\ \E S \in TypedElementKinds : \A i \in DOMAIN l : l[i].k \in S

ElementKind(e) ==
    CASE e.k = "string" -> 3
      [] e.k \in SignedKinds -> 5
      [] e.k \in UnsignedKinds -> 6
      [] e.k = "uint8" -> 4
      [] e.k = "bool" -> 1

\* an element's body: what its encoding is without the kind byte
ElementBody(e) ==
    CASE e.k = "string" -> LP(W64(Len(e.b))) \o e.b
      [] e.k \in SignedKinds -> LP(ZigZag(e.w))
      [] e.k \in UnsignedKinds -> LP(e.w)
      [] e.k \in {"uint8", "bool"} -> <<e.n>>

RECURSIVE Bodies(_)
Bodies(l) == IF l = <<>> THEN <<>> ELSE ElementBody(Head(l)) \o Bodies(Tail(l))

\* element kind, count, bodies: the bytes the frame size counts
TypedFrame(l) == <<ElementKind(l[1])>> \o LP(W64(Len(l))) \o Bodies(l)

\* integers come back 64 bits wide
Widened(e) ==
    IF e.k \in SignedKinds THEN NumV("int64", e.w)
    ELSE IF e.k \in UnsignedKinds THEN NumV("uint64", e.w)
    ELSE e

DecodedList(l) ==
    IF l[1].k = "uint8" THEN BlobV([i \in DOMAIN l |-> l[i].n])
    ELSE ListV(CASE l[1].k = "string" -> "[]string"
                 [] l[1].k \in SignedKinds -> "[]int64"
                 [] l[1].k \in UnsignedKinds -> "[]uint64"
                 [] l[1].k = "bool" -> "[]bool",
               [i \in DOMAIN l |-> Widened(l[i])])

\* C10: for every non-empty list whose elements are all strings, all signed
\* integers, all unsigned integers, all bytes or all booleans,
\* encodeTypedList emits kind byte 0x0B, a frame size that counts the bytes
\* after the frame-size field, the element kind, the count and the element
\* bodies without kind bytes, and decodeTypedList returns the same elements
\* in order with integers widened to 64 bits.
C10_TypedListRoundTrip ==
    (val.k \in SliceKinds \cup {"[]uint8"} /\ Homogeneous(Elems(val))) =>
        /\ op = "encodeTypedList" =>
              /\ res.st = "ok"
              /\ wire.d = <<11>> \o LP(W64(Len(TypedFrame(Elems(val)))))
                              \o TypedFrame(Elems(val))
        /\ op = "decodeTypedList" =>
              res.st = "ok" /\ res.v = DecodedList(Elems(val))

(***************************************************************************)
(* Round trips.                                                            *)
(***************************************************************************)
\* what a decoder is to return for an encoded value: integers and floats
\* 64 bits wide, every nil as null, an object as a map whatever the order
\* its entries were written in
RECURSIVE Canon(_)
Canon(v) ==
    CASE v.k \in NilKinds -> NilV
      [] v.k \in SignedKinds -> NumV("int64", v.w)
      [] v.k \in UnsignedKinds -> NumV("uint64", v.w)
      [] v.k \in FloatKinds -> NumV("float64", v.w)
      [] v.k \in {"map[string]any", "struct"} ->
           MapV({Entry(v.l[i].key, Canon(v.l[i].val)) : i \in DOMAIN v.l})
      [] v.k = "[]any" -> ListV("[]any", [i \in DOMAIN v.l |-> Canon(v.l[i])])
      [] v.k \in {"[]int", "[]int64"} ->
           ListV("[]int64", [i \in DOMAIN v.l |-> Canon(v.l[i])])
      [] OTHER -> v

\* the bytes in hand are what the package-level Encode returns for val
DefaultEncoded == prov = "Encode" /\ wire.d = Encode(val).b

\* a full decode just ran: the package-level Decode, or Decoder.Decode
\* without a field selection
FullDecode ==
    \/ op = "Decode"
    \/ op = "Decoder.Decode" /\ opts.SelectiveFields = <<>>

\* C8: the empty string encodes as 03 01 00 after the version byte, and
\* decoding that encoding, at the top level and as an object member, returns
\* the empty string, not null and not an error; nil encodes with kind byte
\* 0x00 and decodes to null.
C8_EmptyStringAndNil ==
    /\ (DefaultEncoded /\ val = StrV(<<>>)) =>
          /\ wire.d = <<0, 3, 1, 0>>
          /\ FullDecode => res.st = "ok" /\ res.v = StrV(<<>>)
    /\ (DefaultEncoded /\ val = ObjV(<<Entry(KeyOf(1), StrV(<<>>))>>) /\ FullDecode) =>
          res.st = "ok" /\ res.v = MapV({Entry(KeyOf(1), StrV(<<>>))})
    /\ (DefaultEncoded /\ val = NilV) =>
          /\ wire.d = <<0, 0>>
          /\ FullDecode => res.st = "ok" /\ res.v = NilV

\* the values an object of C1 holds
RECURSIVE ObjectShape(_)
ObjectShape(v) ==
    /\ v.k = "map[string]any"
    /\ \A i \in DOMAIN v.l :
          /\ Len(v.l[i].key) <= 255
          /\ \/ v.l[i].val.k \in {"nil", "bool", "string", "int64", "uint8", "[]uint8"}
             \/ ObjectShape(v.l[i].val)

\* C1: for every object m with string keys of at most 255 bytes and values
\* that are null, booleans, strings, int64s, bytes, blobs or nested objects
\* of the same shape, decoding the encoding of m returns a map with exactly
\* the keys of m and an equal value for each key, whatever the order the
\* entries were written in: decodeObject(encodeObject(m)[1:]) = m and
\* Decode(Encode(m)) = m.
C1_ObjectRoundTrip ==
    ObjectShape(val) =>
        /\ op = "encodeObject" => res.st = "ok"
        /\ op = "decodeObject" => res.st = "ok" /\ res.v = Canon(val)
        /\ DefaultEncoded /\ op = "Decode" => res.st = "ok" /\ res.v = Canon(val)

\* C2: for every value v that Encode accepts, of every kind, the element
\* sizer applied to the encoding without its version byte succeeds and
\* returns exactly the number of bytes of that encoding:
\* getElementSize(Encode(v)[1:]) + 1 = len(Encode(v)).
C2_Skippability ==
    (DefaultEncoded /\ op = "getElementSize") =>
        res.st = "ok" /\ res.n + 1 = Len(wire.d)

(***************************************************************************)
(* The kind table and the layout of containers.                            *)
(***************************************************************************)
\* the kind tag(s) the table gives a Go value, by its dynamic kind
KindTags(v) ==
    CASE v.k \in NilKinds -> {0}
      [] v.k = "bool" -> IF v.n = 1 THEN {1} ELSE {2}
      [] v.k = "string" -> {3}
      [] v.k = "uint8" -> {4}
      [] v.k \in SignedKinds -> {5}
      [] v.k \in UnsignedKinds -> {6}
      [] v.k \in FloatKinds -> {7}
      [] v.k = "[]uint8" -> {8}
      [] v.k = "time.Time" -> {9}
      [] v.k \in SliceKinds -> {10, 11}
      [] v.k \in {"map[string]any", "struct"} -> {12}
      [] OTHER -> {}

\* the encodings of v on its own, each without its version byte
Standalone(v) ==
    {Tail(Encoder_Encode(c, v).b) : c \in {x \in EncoderConfigs : Encoder_Encode(x, v).st = "ok"}}
        \cup (IF encode(v).st = "ok" THEN {encode(v).b} ELSE {})

\* v with its kind byte in front and no version byte
Tagged(v) == {b \in Standalone(v) : b[1] \in KindTags(v)}

IsPrefix(p, s) == Len(p) <= Len(s) /\ SubSeq(s, 1, Len(p)) = p
Drop(s, n) == SubSeq(s, n + 1, Len(s))

\* c is the elements of l one after the other, each with its kind byte
RECURSIVE TaggedElements(_, _)
TaggedElements(c, l) ==
    IF l = <<>> THEN c = <<>>
    ELSE \E b \in Tagged(Head(l)) :
            IsPrefix(b, c) /\ TaggedElements(Drop(c, Len(b)), Tail(l))

\* c is the entries of es one after the other: entry size, key length, key,
\* and the value with its kind byte
RECURSIVE TaggedEntries(_, _)
TaggedEntries(c, es) ==
    IF es = <<>> THEN c = <<>>
    ELSE \E b \in Tagged(Head(es).val) :
            LET entry == <<Len(Head(es).key)>> \o Head(es).key \o b
                framed == LP(W64(Len(entry))) \o entry
            IN  IsPrefix(framed, c) /\ TaggedEntries(Drop(c, Len(framed)), Tail(es))

\* the content of a frame that starts at the kind byte d[2]
FrameContent(d) == Drop(d, 3 + d[3])

\* the top of every output: version byte, then the kind tag of the table
TopLevelTag == Len(wire.d) >= 2 /\ wire.d[1] = 0 /\ wire.d[2] \in KindTags(val)

\* the frame behind kind byte d[2] counts exactly the bytes that follow it
Framed == Len(wire.d) >= 4 /\ Drop(wire.d, 2) = LP(W64(Len(FrameContent(wire.d)))) \o FrameContent(wire.d)

\* C3 as stated: for every value Encoder.Encode accepts the output has at
\* least 2 bytes, byte 0 is 0x00 and byte 1 is the kind tag of the value's
\* dynamic kind; values nested inside objects and lists (untyped or typed)
\* carry their kind byte but no version byte.
C3_KindTagsEverywhere ==
    prov = "Encode" =>
        /\ TopLevelTag
        /\ val.k \in SliceKinds =>
              \E n \in 0..Len(wire.d) : TaggedElements(Drop(wire.d, n), Elems(val))
        /\ val.k \in {"map[string]any", "struct"} =>
              Framed /\ TaggedEntries(FrameContent(wire.d), val.l)

\* C3, amended: the same at the top level; values nested inside objects and
\* untyped lists (0x0A) carry their kind byte but no version byte.  The
\* elements of a typed list (0x0B) are not covered.
C3_KindTags ==
    op = "Encode" /\ prov = "Encode" =>
        /\ TopLevelTag
        /\ val.k \in SliceKinds /\ wire.d[2] = 10 =>
              Framed /\ TaggedElements(FrameContent(wire.d), Elems(val))
        /\ val.k \in {"map[string]any", "struct"} =>
              Framed /\ TaggedEntries(FrameContent(wire.d), val.l)

\* an object that holds an object of two entries was encoded
C3_Witness ==
    /\ prov = "Encode" /\ op = "Encode"
    /\ val.k = "map[string]any" /\ Len(val.l) = 2
    /\ val.l[2].val.k = "map[string]any" /\ Len(val.l[2].val.l) = 2

(***************************************************************************)
(* Selective decoding.                                                     *)
(***************************************************************************)
KeysOf(v) == {v.l[i].key : i \in DOMAIN v.l}
Requested == {opts.SelectiveFields[i] : i \in DOMAIN opts.SelectiveFields}

\* Decoder.Decode just ran with a field selection among the keys of val
SelectiveDecode ==
    /\ DefaultEncoded /\ val.k = "map[string]any"
    /\ op = "Decoder.Decode" /\ Requested # {} /\ Requested \subseteq KeysOf(val)

\* C4: for every object o and every non-empty set F of keys of o, decoding
\* Encode(o) with SelectiveFields F returns exactly the map
\* { k: o[k] | k in F }: every key of F, no key outside F, and for each key
\* the complete value o[k] as full decoding returns it, also when o[k] is
\* itself an object or a list.
C4_SelectiveCorrectness ==
    SelectiveDecode =>
        /\ res.st = "ok"
        /\ res.v = MapV({e \in Canon(val).m : e.key \in Requested})

(***************************************************************************)
(* Malformed input.                                                        *)
(***************************************************************************)
\* the errors that report an input too short for what it announces
InsufficientDataErrors ==
    {"bogo decode error: insufficient data, need at least 2 bytes for version and type",
     "bogo decode error: insufficient data for type",
     "bogo decode error: insufficient data for string size",
     "bogo decode error: insufficient data for string size info",
     "bogo decode error: insufficient data for number size",
     "bogo decode error: insufficient data for number",
     "bogo decode error: insufficient data for byte",
     "bogo decode error: insufficient data for field size",
     "bogo decode error: insufficient data for fields",
     "bogo decode error: insufficient data for entry size",
     "bogo decode error: insufficient data for entry content",
     "bogo decode error: insufficient data for key length",
     "bogo decode error: insufficient data for key",
     "byte decode error: insufficient data, need 1 byte",
     "blob decode error: insufficient data for size",
     "blob decode error: insufficient data for blob content",
     "timestamp decode error: insufficient data, need 8 bytes",
     "object decoder error: insufficient data for field size",
     "object decoder error: insufficient data for fields",
     "insufficient data for entry size",
     "insufficient data for entry content",
     "insufficient data for key length",
     "insufficient data for key",
     "insufficient data for array size",
     "insufficient data for array content",
     "insufficient data for numeric size",
     "typed list decode error: insufficient string data",
     "typed list decode error: insufficient string length data",
     "typed list decode error: insufficient int data",
     "typed list decode error: insufficient int length data",
     "typed list decode error: insufficient uint data",
     "typed list decode error: insufficient uint length data",
     "typed list decode error: insufficient float data",
     "typed list decode error: insufficient float length data",
     "typed list decode error: insufficient data for size",
     "typed list decode error: insufficient data for size info",
     "typed list decode error: insufficient data for content",
     "typed list decode error: insufficient count data",
     "typed list decode error: insufficient string content data"}

\* Decoder.Decode just ran on an input shorter than 2 bytes, or on an
\* encoding of more than 2 bytes that lost its last byte
ShortInput ==
    /\ op = "Decoder.Decode"
    /\ \/ prov = "crafted" /\ SLen(wire) < 2
       \/ prov = "truncated"

\* C5: Decoder.Decode returns an insufficient-data error, and never a
\* value, a crash or a read past the end of the input, for every input
\* shorter than 2 bytes and for every valid encoding longer than 2 bytes
\* with its last byte removed, of any kind.
C5_TruncationIsInsufficientData ==
    ShortInput => res.st = "err" /\ res.err \in InsufficientDataErrors

\* Decoder.Decode just ran on an input whose first byte is not 0x00
ForeignVersion == op = "Decoder.Decode" /\ SLen(wire) >= 1 /\ wire.d[1] # 0

\* the result in hand is the one the same decoder returns for the same
\* input with 0x00 as its first byte
AsVersionZero == res = OfDec(Decoder_Decode(opts, [wire EXCEPT !.d[1] = 0]))

\* C6 as stated: on an input whose first byte is not 0x00, Decoder.Decode
\* with StrictMode true returns an unsupported-version error and no value;
\* with StrictMode false it returns exactly the result it returns for the
\* same input with the first byte replaced by 0x00.
C6_VersionByteAnyLength ==
    ForeignVersion =>
        IF opts.StrictMode
        THEN res.st = "err" /\ res.v = NilV
                /\ res.err = "bogo decode error: unsupported version"
        ELSE AsVersionZero

\* C6, amended: the same for an input of at least 2 bytes (a shorter input
\* is reported as insufficient data before the version byte is looked at).
C6_VersionByte ==
    (ForeignVersion /\ SLen(wire) >= 2) =>
        IF opts.StrictMode
        THEN res.st = "err" /\ res.v = NilV
                /\ res.err = "bogo decode error: unsupported version"
        ELSE AsVersionZero

\* an encoded object whose version byte was overwritten came back as a map
\* from a lenient decoder
C6_Witness ==
    /\ ForeignVersion /\ prov = "reversioned" /\ ~opts.StrictMode
    /\ val.k = "map[string]any" /\ Len(val.l) = 2
    /\ res.st = "ok" /\ res.v = Canon(val)

\* the inputs that hold a kind byte outside the table (13), behind version
\* 0, and what a decoder that passes unknown kinds through is to return
UnknownCarrier ==
    [b \in {<<0, 13>>, <<0, 13, 1, 2>>, <<0, 200, 5>>,
            <<0, 12, 1, 6, 1, 4, 1, 97, 13, 9>>, <<0, 10, 1, 2, 13, 9>>} |->
        CASE b[2] = 12 -> MapV({Entry(<<97>>, UnknownV(13, <<13, 9>>))})
          [] b[2] = 10 -> ListV("[]any", <<UnknownV(13, <<13, 9>>)>>)
          [] OTHER -> UnknownV(b[2], Tail(b))]

\* C7: whenever the Decoder reads a kind byte that is not one of the
\* thirteen tags, at the top level or as the value of an object member or a
\* list element: with AllowUnknownTypes true no error is returned and the
\* value at that position is an UnknownType carrier holding the kind id and
\* the raw bytes from the kind byte onward; with AllowUnknownTypes false
\* Decode returns an error and no value.
C7_UnknownKinds ==
    (op = "Decoder.Decode" /\ prov = "crafted" /\ wire.d \in DOMAIN UnknownCarrier) =>
        IF opts.AllowUnknownTypes
        THEN res.st = "ok" /\ res.v = UnknownCarrier[wire.d]
        ELSE res.st = "err" /\ res.v = NilV

(***************************************************************************)
(* Lists through the configurable codec.                                   *)
(***************************************************************************)
\* the elements of l do not all have one kind
MixedKinds(l) == \E i, j \in DOMAIN l : l[i].k # l[j].k

\* Decoder.Decode just ran, without a field selection, on what
\* Encoder.Encode returned for val
EncodedThenDecoded ==
    prov = "Encode" /\ op = "Decoder.Decode" /\ opts.SelectiveFields = <<>>

\* C11: for every list whose elements have mixed kinds, and for the empty
\* list, Decoder.Decode(Encoder.Encode(l)) succeeds and returns a list with
\* the same elements in the same order, integers widened to 64 bits; the
\* empty list decodes to an empty list, not to null and not to an error.
C11_UntypedListRoundTrip ==
    (EncodedThenDecoded /\ val.k = "[]any" /\ (val.l = <<>> \/ MixedKinds(val.l))) =>
        res.st = "ok" /\ res.v = Canon(val)

\* the kind of an element as the list encoder is to see it
KindClass(e) ==
    IF e.k \in SignedKinds THEN "int"
    ELSE IF e.k \in UnsignedKinds THEN "uint"
    ELSE IF e.k \in FloatKinds THEN "float"
    ELSE e.k

SupportedClasses == {"string", "int", "uint", "float", "bool", "uint8"}

SharedKind(l) ==
    /\ l # <<>> /\ KindClass(l[1]) \in SupportedClasses
    /\ \A i \in DOMAIN l : KindClass(l[i]) = KindClass(l[1])

DifferentKinds(l) == \E i, j \in DOMAIN l : KindClass(l[i]) # KindClass(l[j])

\* C12: with CompactLists enabled, a non-empty list whose elements all
\* share one supported kind (string, signed integer, unsigned integer,
\* float, bool, byte) is emitted as a TypedList (0x0B), whether the list is
\* statically typed or a list of dynamically typed elements; a list whose
\* elements have different kinds is emitted as an UntypedList (0x0A); an
\* empty list is emitted as an empty UntypedList.
C12_ListKindDecision ==
    (prov = "Encode" /\ enc.CompactLists /\ val.k \in SliceKinds) =>
        /\ val.l = <<>> => wire.d = <<0, 10, 1, 0>>
        /\ SharedKind(val.l) => wire.d[2] = 11
        /\ DifferentKinds(val.l) => wire.d[2] = 10

(***************************************************************************)
(* Floats.                                                                 *)
(***************************************************************************)
\* the low 52 bits of the IEEE-754 pattern
Mantissa(bits) == WLow(bits, 52)

\* C13: in every encoded float the length byte L after the kind byte 0x07
\* equals 2 plus the number of bytes of the mantissa uvarint, which is
\* exactly the number of bytes that follow L; the decoder accepts a float
\* whose L has that value and rejects a float whose L is inconsistent with
\* the bytes present.
C13_FloatLength ==
    /\ (prov = "Encode" /\ val.k \in FloatKinds) =>
          /\ wire.d[2] = 7
          /\ wire.d[3] = 2 + Len(Base128(Mantissa(val.w)))
          /\ wire.d[3] = Len(wire.d) - 3
          /\ EncodedThenDecoded => res.st = "ok" /\ res.v = Canon(val)
    /\ (prov = "crafted" /\ op = "Decoder.Decode" /\ ~opts.StrictMode) =>
          /\ wire.d = <<0, 7, 3, 0, 0, 0>> =>
                res.st = "ok" /\ res.v = NumV("float64", Zero64)
          /\ wire.d = <<0, 7, 3, 0, 0>> => res.st = "err" /\ res.v = NilV

(***************************************************************************)
(* The sizes an encoded object declares.                                   *)
(***************************************************************************)
\* the number a little-endian base-128 byte string stands for
RECURSIVE Num(_)
Num(bs) == IF bs = <<>> THEN 0 ELSE (Head(bs) % 128) + 128 * Num(Tail(bs))

\* b starts with a length byte L and L bytes of size: the size, and the
\* bytes after the size field
SizeField(b) == Num(SubSeq(b, 2, 1 + b[1]))
AfterSize(b) == Drop(b, 1 + b[1])

RECURSIVE ObjectSized(_, _), EntriesSized(_, _), EntrySized(_, _, _)

\* entry is what follows an entry-size field that declares size: the key
\* length, the key and the encoded value e.val, and nothing else
EntrySized(entry, size, e) ==
    /\ Len(entry) >= 1 /\ entry[1] = Len(e.key)
    /\ SubSeq(entry, 2, 1 + entry[1]) = e.key
    /\ Drop(entry, 1 + entry[1]) \in Standalone(e.val)
    /\ size = 1 + entry[1] + Len(Drop(entry, 1 + entry[1]))
    /\ e.val.k = "map[string]any" => ObjectSized(Drop(entry, 1 + entry[1]), e.val)

\* c is exactly the entries es, each taking 1 byte L_entry, the bytes of its
\* entry_size, and entry_size bytes
EntriesSized(c, es) ==
    IF es = <<>> THEN c = <<>>
    ELSE /\ Len(c) >= 1 /\ Len(c) >= 1 + c[1] + SizeField(c)
         /\ EntrySized(SubSeq(AfterSize(c), 1, SizeField(c)), SizeField(c), Head(es))
         /\ EntriesSized(Drop(c, 1 + c[1] + SizeField(c)), Tail(es))

\* b is the object v from its kind byte on: the frame size counts exactly
\* the entries
ObjectSized(b, v) ==
    /\ Len(b) >= 3 /\ b[1] = 12
    /\ SizeField(Tail(b)) = Len(AfterSize(Tail(b)))
    /\ v.l = <<>> => SizeField(Tail(b)) = 0
    /\ EntriesSized(AfterSize(Tail(b)), v.l)

RepeatedKey == KeyOf(1)
LastWritten == BoolV(FALSE)

\* C15: when an object payload contains several entries with the same key,
\* the decoded map holds for that key the value of the last such entry in
\* payload order, both in full decoding and in selective decoding when that
\* key is requested.
C15_LastEntryWins ==
    (op = "Decoder.Decode" /\ prov = "crafted" /\ wire.d \in DuplicateKeyInputs
        /\ (opts.SelectiveFields = <<>> \/ RepeatedKey \in wantedFields(opts))) =>
        /\ res.st = "ok"
        /\ RepeatedKey \in MapKeys(res.v.m)
        /\ MapGet(res.v.m, RepeatedKey) = LastWritten

(***************************************************************************)
(* Keys longer than the key-length byte can say.                           *)
(***************************************************************************)
Max(S) == CHOOSE x \in S : \A y \in S : y <= x

RECURSIVE NestingDepth(_)
\* objects and lists count as containers, the outermost being depth 1
NestingDepth(v) ==
    CASE v.k \in {"map[string]any", "struct"} ->
            1 + Max({0} \cup {NestingDepth(v.l[i].val) : i \in DOMAIN v.l})
      [] v.k \in SliceKinds ->
            1 + Max({0} \cup {NestingDepth(v.l[i]) : i \in DOMAIN v.l})
      [] OTHER -> 0

RECURSIVE HasLongKey(_)
\* some key of v, at any nesting level, is longer than 255 bytes
HasLongKey(v) ==
    CASE v.k \in {"map[string]any", "struct"} ->
            \E i \in DOMAIN v.l : Len(v.l[i].key) > 255 \/ HasLongKey(v.l[i].val)
      [] v.k \in SliceKinds -> \E i \in DOMAIN v.l : HasLongKey(v.l[i])
      [] OTHER -> FALSE

KeyTooLongErrors ==
    {"key too long, maximum 255 bytes", "bogo encode error: object key too long"}

RECURSIVE OnlyKeysFail(_, _)
\* v is an object whose long keys are all that stands in the way: every
\* entry's value either is an object of that sort or is encoded by e
OnlyKeysFail(e, v) ==
    /\ v.k \in {"map[string]any", "struct"}
    /\ \A i \in DOMAIN v.l :
          \/ Encoder_Encode(e, v.l[i].val).st = "ok"
          \/ HasLongKey(v.l[i].val) /\ OnlyKeysFail(e, v.l[i].val)

C17_MalformedObjectRejected ==
    (op = "decodeObject" /\ prov = "malformed") => res.st = "err" /\ res.v = NilV

(***************************************************************************)
(* The encoder's nesting limit.                                            *)
(***************************************************************************)
DepthError == "bogo encode error: maximum nesting depth exceeded"

\* C18: for an Encoder with MaxDepth = k > 0, Encode returns a
\* maximum-nesting-depth error and no bytes if and only if the container
\* nesting of the value (objects and lists both counting as containers, the
\* top-level container being depth 1) exceeds k; with MaxDepth = 0 no depth
\* error is ever returned.
C18_EncoderMaxDepth ==
    op = "Encode" =>
        /\ enc.MaxDepth > 0 =>
              ((res.st = "err" /\ res.err = DepthError /\ wire.d = <<>>)
                  <=> NestingDepth(val) > enc.MaxDepth)
        /\ enc.MaxDepth = 0 => res.err # DepthError

(***************************************************************************)
(* The decoder's nesting limit.                                            *)
(***************************************************************************)
\* C19: for a Decoder with MaxDepth = k > 0, Decode returns a
\* depth-exceeded error and no value for every payload whose nesting of
\* objects and lists is deeper than k, in full decoding and in selective
\* decoding alike.
C19_DecoderMaxDepth ==
    (op = "Decoder.Decode" /\ prov = "Encode" /\ opts.MaxDepth > 0
        /\ NestingDepth(val) > opts.MaxDepth) =>
        /\ res.st = "err"
        /\ res.err = "bogo decode error: maximum nesting depth exceeded"
        /\ res.v = NilV

(***************************************************************************)
(* The decoder's size limit.                                               *)
(***************************************************************************)
RECURSIVE HasBlobLongerThan(_, _)
\* v is, or holds at some nesting level, a blob of more than m bytes
HasBlobLongerThan(v, m) ==
    CASE v.k = "[]uint8" -> Len(v.b) > m
      [] v.k \in {"map[string]any", "struct"} ->
            \E i \in DOMAIN v.l : HasBlobLongerThan(v.l[i].val, m)
      [] v.k \in SliceKinds -> \E i \in DOMAIN v.l : HasBlobLongerThan(v.l[i], m)
      [] OTHER -> FALSE

SizeErrors ==
    {"bogo decode error: maximum object size exceeded", "bogo decode error: blob too large"}

\* C20: for a Decoder with MaxObjectSize = M > 0, Decode returns a
\* size-exceeded error and no value whenever the cumulative number of
\* payload bytes processed during the call exceeds M (in particular for
\* every payload whose bytes after the version byte number more than M),
\* and whenever a blob body, at the top level or nested in an object or
\* list, is longer than M.
C20_DecoderMaxObjectSize ==
    (op = "Decoder.Decode" /\ prov = "Encode" /\ opts.MaxObjectSize > 0
        /\ \/ bytesProcessed > opts.MaxObjectSize
           \/ SLen(wire) - 1 > opts.MaxObjectSize
           \/ HasBlobLongerThan(val, opts.MaxObjectSize)) =>
        res.st = "err" /\ res.err \in SizeErrors /\ res.v = NilV

(***************************************************************************)
(* UTF-8 validation by the decoder.                                        *)
(***************************************************************************)
\* C21: with ValidateUTF8 enabled, Decoder.Decode returns an error for every
\* payload that contains a string value or an object key that is not valid
\* UTF-8, at any nesting level and whatever the StrictMode setting.
C21_InvalidUTF8Rejected ==
    (op = "Decoder.Decode" /\ prov = "crafted" /\ wire.d \in InvalidUTF8Inputs
        /\ opts.ValidateUTF8) =>
        res.st = "err" /\ res.v = NilV

(***************************************************************************)
(* Who owns the bytes a decoder returns.                                   *)
(***************************************************************************)
FromEncode == prov \in {"Encode", "Encode, overwritten"}
FromEncodeTypedList == prov \in {"encodeTypedList", "encodeTypedList, overwritten"}

\* a decoder returned bytes for an encoded blob or byte list
DecodedBytes ==
    /\ (FromEncode \/ FromEncodeTypedList) /\ val.k = "[]uint8"
    /\ res.st = "ok" /\ res.v.k = "[]uint8"

\* C22: Decode never writes to its input buffer, and a blob (or byte list)
\* it returns is an owned buffer that shares no storage with the input:
\* overwriting the input after Decode has returned does not change the
\* returned bytes, and overwriting the returned bytes does not change the
\* input.
C22_ReturnedBytesOwned ==
    /\ (DecodedBytes /\ op \in {"Decoder.Decode", "Decode"}) =>
          wire.d = Encoder_Encode(enc, val).b
    /\ (DecodedBytes /\ op = "decodeTypedList") => wire.d = encodeTypedList(val).b
    /\ (DecodedBytes /\ op = "overwriteInput") => res.v.b = val.b
    /\ (DecodedBytes /\ op = "overwriteResult" /\ FromEncode) =>
          wire.d = Encoder_Encode(enc, val).b
    /\ (DecodedBytes /\ op = "overwriteResult" /\ FromEncodeTypedList) =>
          wire.d = encodeTypedList(val).b

(***************************************************************************)
(* The statistics of a StatsCollector against the record of its calls.     *)
(***************************************************************************)
Successful(cs) == {i \in DOMAIN cs : cs[i].st = "ok"}

RECURSIVE BytesReturned(_)
BytesReturned(cs) ==
    IF cs = <<>> THEN 0
    ELSE (IF Head(cs).st = "ok" THEN Head(cs).n ELSE 0) + BytesReturned(Tail(cs))

\* m[k] of a Go map: 0 for a key that is absent
Counted(m, k) == IF k \in DOMAIN m THEN m[k] ELSE 0

\* C23: after any sequence of Encode and ResetStats calls on a
\* StatsCollector, BytesEncoded is the sum of the output lengths of the
\* successful Encode calls since the last reset, ErrorsCount the number of
\* failed ones, and TypesEncoded[k] the number of successful ones whose
\* output kind byte is k (no other key is present); a failed call changes
\* only ErrorsCount, ResetStats zeroes every counter and empties
\* TypesEncoded, and a snapshot handed out by GetStats stays what it was.
C23_StatsCounters ==
    /\ sc.Stats.BytesEncoded = BytesReturned(calls.sc)
    /\ sc.Stats.ErrorsCount = Len(calls.sc) - Cardinality(Successful(calls.sc))
    /\ \A k \in 0..255 :
           Counted(sc.Stats.TypesEncoded, k) =
               Cardinality({i \in Successful(calls.sc) : calls.sc[i].kind = k})
    /\ DOMAIN sc.Stats.TypesEncoded = {calls.sc[i].kind : i \in Successful(calls.sc)}
    /\ lastCall.who = "sc" /\ lastCall.st # "ok" =>
           sc.Stats = [lastCall.before EXCEPT !.ErrorsCount = @ + 1]
    /\ lastCall.who = "sc.ResetStats" => sc.Stats = NoEncodingStats
    /\ snapshot.of = "sc" => snapshot.stats = snapshot.taken

\* a successful call, a snapshot, then a failed call
C23_Witness ==
    /\ Len(calls.sc) = 2
    /\ calls.sc[1].st = "ok" /\ calls.sc[1].kind = TypeObject
    /\ calls.sc[2].st # "ok"
    /\ snapshot.of = "sc" /\ snapshot.taken # sc.Stats
    /\ sc.Stats.BytesEncoded > 0 /\ sc.Stats.ErrorsCount = 1

\* a reset after calls that counted
C23_WitnessReset ==
    /\ lastCall.who = "sc.ResetStats"
    /\ lastCall.before.BytesEncoded > 0
    /\ lastCall.before.ErrorsCount > 0

(***************************************************************************)
(* The depth counter of an instance used call after call.                  *)
(***************************************************************************)
\* C24: on one Encoder or Decoder used sequentially the depth counter is
\* never negative during a call and is 0 when the call returns, with a
\* value or with an error raised at any nesting level; the counters are
\* reset at the start of each call, so that a call made after others ends
\* as the same call on a fresh instance does.
C24_DepthRestored ==
    /\ sc.depth = 0
    /\ dsc.depth = 0
    /\ lastCall.track.low >= 0
    /\ lastCall.track.depth = 0
    /\ lastCall.who \in {"sc", "dsc"} => lastCall.track.st = lastCall.st

\* a call that fails two levels down, on an instance that was used before
C24_Witness ==
    /\ lastCall.who = "sc"
    /\ lastCall.st = "err"
    /\ lastCall.track.high >= 2
    /\ Len(calls.sc) >= 2
    /\ sc.depth = 0

\* the same of the decoder
C24_WitnessDecoder ==
    /\ lastCall.who = "dsc"
    /\ lastCall.st = "err"
    /\ lastCall.track.high >= 1
    /\ Len(calls.dsc) >= 2
    /\ dsc.depth = 0

\* C30: after any sequence of Encode calls on a StatsCollector and of Decode
\* calls on a DecoderStatsCollector, whatever the nesting of the values,
\* MaxDepthUsed is 0: it is read from the depth counter after the call has
\* returned.
C30_MaxDepthUsedZero ==
    /\ sc.Stats.MaxDepthUsed = 0
    /\ dsc.Stats.MaxDepthUsed = 0

\* an object three levels deep was encoded, and one was decoded
C30_Witness ==
    /\ lastCall.who = "dsc" /\ lastCall.st = "ok" /\ lastCall.track.high >= 3
    /\ dsc.Stats.BytesDecoded > 0
    /\ \E i \in DOMAIN calls.sc :
           calls.sc[i].st = "ok" /\ calls.sc[i].n = Len(Encode(DeepObject).b)
    /\ sc.Stats.MaxDepthUsed = 0

(***************************************************************************)
(* Selective decoding of entries that full decoding rejects.               *)
(***************************************************************************)
\* Decoder.Decode just ran, asking for "a" alone and with the other options
\* at their defaults, on an object whose other entries cannot be decoded
SkippingDecode ==
    /\ op = "Decoder.Decode" /\ prov = "crafted" /\ wire.d \in SkippedEntryInputs
    /\ Requested = {KeyOf(1)}
    /\ opts = [DefaultDecoder EXCEPT !.SelectiveFields = opts.SelectiveFields]

\* C25: in selective decoding the value of an entry that is not requested
\* is never decoded, so a payload whose other entries full decoding rejects
\* decodes to the requested entries; and once every requested key has its
\* value no later entry of the frame is read.
C25_SkippedNeverDecoded ==
    SkippingDecode => res.st = "ok" /\ res.v = MapV({Entry(KeyOf(1), BoolV(TRUE))})

\* the same when SelectiveFields names no key twice
C25_SkippedUnlessRepeated ==
    SkippingDecode /\ Len(opts.SelectiveFields) = 1 =>
        res.st = "ok" /\ res.v = MapV({Entry(KeyOf(1), BoolV(TRUE))})

\* "a" is asked for twice, has its value, and the entry after it is read
C25_ReadsOn ==
    /\ SkippingDecode
    /\ opts.SelectiveFields = <<KeyOf(1), KeyOf(1)>>
    /\ res.st = "err"
    /\ res.err = "bogo decode error: insufficient data for entry content"

(***************************************************************************)
(* Selective decoding of nested objects.                                   *)
(***************************************************************************)
\* the members of the map v whose key is in F, and of those that are maps
\* again their members whose key is in F, and so on; a value that is no map
\* is kept whole
RECURSIVE Selected(_, _)
Selected(v, F) ==
    IF v.k # "map[string]any" THEN v
    ELSE MapV({Entry(e.key, Selected(e.val, F)) : e \in {x \in v.m : x.key \in F}})

\* Decoder.Decode just ran on an encoded object, asking for a key whose value
\* in it is an object, or for the key "a.b"
NestedSelectiveDecode ==
    /\ DefaultEncoded /\ val.k = "map[string]any"
    /\ op = "Decoder.Decode" /\ Requested # {}
    /\ opts = [DefaultDecoder EXCEPT !.SelectiveFields = opts.SelectiveFields]
    /\ \/ \E i \in DOMAIN val.l :
              val.l[i].key \in Requested /\ val.l[i].val.k = "map[string]any"
       \/ DottedKey \in Requested

\* C26: when SelectiveFields F is not empty and the value of a requested key
\* is itself an object, that object is decoded selectively with the same F:
\* the nested map holds exactly its members whose literal key is in F, at
\* every level of nesting, and a requested key with a dot in it is matched
\* as a literal key, never as a path.
C26_NestedSelective ==
    NestedSelectiveDecode =>
        /\ res.st = "ok"
        /\ res.v = Selected(Canon(val), Requested)

\* {"b": nil, "a": {"a": 1, "b": true}} asked for "a": the inner map comes
\* back without its member "b"
C26_Witness ==
    /\ NestedSelectiveDecode
    /\ Requested = {KeyOf(1)}
    /\ Len(val.l) = 2
    /\ res.st = "ok"
    /\ res.v = MapV({Entry(KeyOf(1), MapV({Entry(KeyOf(1), NumV("int64", I64(1)))}))})

\* "a.b" asked for of {"a": {"b": true}, "a.b": 1}: the member "a.b" comes
\* back and nothing of "a"
C26_WitnessDotted ==
    /\ NestedSelectiveDecode
    /\ Requested = {DottedKey}
    /\ res.st = "ok"
    /\ res.v = MapV({Entry(DottedKey, NumV("int64", I64(1)))})

(***************************************************************************)
(* The layout of a float, written from the IEEE-754 fields of the pattern. *)
(***************************************************************************)
\* the 16-bit word behind the kind byte and the length byte, low byte first
FloatWord(d) == d[3] + 256 * d[4]

\* the exponent field, bits 52..62 of the pattern, as a number
ExponentField(w) == WField(w, 53, 63)

\* the mantissa field, bits 0..51 of the pattern, as a word
MantissaField(w) == [i \in 1..WordBits |-> IF i <= 52 THEN w[i] ELSE 0]

C29_WitnessSubnormal ==
    /\ op = "decodeFloat" /\ res.st = "ok"
    /\ val.w = Float64Of(1, 0, 1..52)
    /\ Len(wire.d) = 12

(***************************************************************************)
(* Two Marshal calls at once on the default encoder.                       *)
(***************************************************************************)
AllReturned == \A g \in Goroutines : goroutine[g].pc = "done"

\* what the call of goroutine g returns when it runs alone
Alone(g) == Encoder_Encode(defaultEncoder.e, goroutine[g].v).st

\* C27: the default encoder that Marshal uses is guarded against concurrent
\* use: when two Marshal calls of nested objects run at once, under every
\* interleaving each returns what it returns alone (no spurious and no
\* missed depth-exceeded error) and the encoder's depth counter is 0 once
\* both have returned.
C27_MarshalGuarded ==
    AllReturned =>
        /\ \A g \in Goroutines : goroutine[g].st = Alone(g)
        /\ defaultEncoder.depth = 0

\* both calls returned what they return alone and the counter is below 0
C27_DepthLeft ==
    /\ AllReturned
    /\ \A g \in Goroutines : goroutine[g].st = Alone(g)
    /\ defaultEncoder.depth < 0

\* an object of two levels, accepted alone under MaxDepth 2, was refused
C27_SpuriousError ==
    /\ AllReturned
    /\ \E g \in Goroutines : goroutine[g].st = "err" /\ Alone(g) = "ok"

\* an object of three levels, refused alone under MaxDepth 2, was accepted
C27_MissedError ==
    /\ AllReturned
    /\ \E g \in Goroutines : goroutine[g].st = "ok" /\ Alone(g) = "err"

(***************************************************************************)
(* Two values on one stream.                                               *)
(***************************************************************************)
InsufficientData ==
    "bogo decode error: insufficient data, need at least 2 bytes for version and type"

\* the first Decode call found two values on the stream
TwoThenDecode ==
    /\ Len(stream.decoded) >= 1
    /\ stream.decoded[1].unread = 2

\* C28: StreamDecoder.Decode consumes its whole reader on every call: when
\* two StreamEncoder.Encode calls have written two values to a stream, the
\* first Decode returns the first value and discards the bytes of the
\* second, and every later Decode returns an insufficient-data error
\* instead of the second value.
C28_StreamDrained ==
    TwoThenDecode =>
        /\ stream.decoded[1].res.st = "ok"
        /\ stream.decoded[1].res.v = Canon(stream.written[1])
        /\ \A i \in 2..Len(stream.decoded) :
               /\ stream.decoded[i].res.st = "err"
               /\ stream.decoded[i].res.err = InsufficientData

\* the second value never comes back and the reader is left empty
C28_SecondLost ==
    TwoThenDecode =>
        /\ stream.buf = <<>>
        /\ \A i \in 2..Len(stream.decoded) :
               /\ stream.decoded[i].res.st = "err"
               /\ stream.decoded[i].res.err = InsufficientData

====
